---- MODULE Spec2Model ----
(***************************************************************************)
(* A model of github.com/segmentio/cli: the command-line parser            *)
(* (parse.go), the option decoders (decode.go) and the leaf command        *)
(* CommandFunc (command.go).                                               *)
(*                                                                         *)
(* A Go string is a tuple of one-character strings, so that the code's     *)
(* byte-level tests (s[0] == '-', IndexByte(s, '='), prefixes) are         *)
(* computed and not assumed: "--flag=x" is <<"-","-","f","l","a","g",      *)
(* "=","x">>.  A Go map is a TLA+ function whose DOMAIN is the key set.    *)
(***************************************************************************)
EXTENDS Integers, Sequences, FiniteSets, TLC

VARIABLES
    cmd,     \* the node called: a *CommandFunc with its public and private fields,
             \* or a CommandSet with its children
    ctx,     \* the context.Context given to the pending Call
    args,    \* the argument vector given to the pending Call
    env,     \* the environment snapshot given to the pending Call
    pc,      \* "ready": Call not yet made; "done": Call returned; "panic"
    ret,     \* what Call returned: [code, err]
    calls,   \* the invocations of a Func made so far, each with its parameters
    routed,  \* the calls a CommandSet made on a child: the name and the vector given
    exit,    \* the status CallContext returned
    Err,     \* what CallContext wrote to cli.Err
    structType, \* the reflect.Type of an options struct given to forEachStructField
    got      \* what a direct call of forEachStructField or of parseCommandLine gave

vars == <<cmd, ctx, args, env, pc, ret, calls, routed, exit, Err, structType, got>>

(***************************************************************************)
(* Bounds of the model.                                                    *)
(***************************************************************************)
MaxArgs == 3

(***************************************************************************)
(* Strings.                                                                *)
(***************************************************************************)
HasPrefix(s, p) == Len(s) >= Len(p) /\ SubSeq(s, 1, Len(p)) = p

\* strings.IndexByte(s, c), 1-based; 0 when c does not occur in s
IndexByte(s, c) ==
    IF \E i \in 1..Len(s) : s[i] = c
    THEN CHOOSE i \in 1..Len(s) : s[i] = c /\ \A j \in 1..(i - 1) : s[j] # c
    ELSE 0

(***************************************************************************)
(* Errors.  An error value is a record: kind is "nil", "Usage" (a Usage    *)
(* pointer), "Help" (a Help pointer) or "error" (any other error); Cmd is  *)
(* the node a Usage or a Help carries; msg is the message of the innermost *)
(* fmt.Errorf, name the string it quotes, closest the registered key that  *)
(* an "unknown command" error suggests, and cause the message of the error *)
(* that a "decoding" Usage wraps.                                          *)
(***************************************************************************)
\* The node a signal carries: base is the Function at the origin ("nil" for the nil
\* Function, "CommandFunc" for a leaf, "CommandSet" for a set) and names the names of
\* the namedCommand decorators around it, outermost first.
NilCmd == [names |-> <<>>, base |-> "nil"]

NoError ==
    [kind |-> "nil", Cmd |-> NilCmd, msg |-> "", name |-> <<>>, cause |-> "",
     closest |-> <<>>]

UsageErr(c, m, n) ==
    [kind |-> "Usage", Cmd |-> c, msg |-> m, name |-> n, cause |-> "", closest |-> <<>>]

HelpErr(c) ==
    [kind |-> "Help", Cmd |-> c, msg |-> "", name |-> <<>>, cause |-> "", closest |-> <<>>]

BareErr(m, n) ==
    [kind |-> "error", Cmd |-> NilCmd, msg |-> m, name |-> n, cause |-> "",
     closest |-> <<>>]

(***************************************************************************)
(* parse.go                                                                *)
(***************************************************************************)
isOption(s) == Len(s) > 1 /\ s[1] = "-"

isCommandSeparator(s) == s = <<"-", "-">>

\* splitNameValue, given i = IndexByte(s, '=')
splitAt(s, i) ==
    IF i = 0
    THEN [name |-> s, value |-> <<>>, hasValue |-> FALSE]
    ELSE [name |-> SubSeq(s, 1, i - 1), value |-> SubSeq(s, i + 1, Len(s)),
          hasValue |-> TRUE]

splitNameValue(s) == splitAt(s, IndexByte(s, "="))

\* lookupEnv's loop from entry i on; kv is entry i split
RECURSIVE lookupEnvFrom(_, _, _)
lookupEnvEntry(name, e, i, kv) ==
    IF kv.name = name THEN [v |-> kv.value, ok |-> TRUE]
    ELSE lookupEnvFrom(name, e, i + 1)

lookupEnvFrom(name, e, i) ==
    IF i > Len(e) THEN [v |-> <<>>, ok |-> FALSE]
    ELSE lookupEnvEntry(name, e, i, splitNameValue(e[i]))

lookupEnv(name, e) == lookupEnvFrom(name, e, 1)

\* MapAppend storing the value in place of the list: m[k] = []string{v}
MapAppend_replaces(m, k, v) ==
    IF k \in DOMAIN m
    THEN [m EXCEPT ![k] = <<v>>]
    ELSE m @@ (k :> <<v>>)

\* m[k] = append(m[k], v) on a map of string lists
MapAppend(m, k, v) ==
    IF k \in DOMAIN m
    THEN [m EXCEPT ![k] = Append(@, v)]
    ELSE m @@ (k :> <<v>>)

EmptyMap == [x \in {} |-> <<>>]

ParseResult(options, values, command, err) ==
    [options |-> options, values |-> values, command |-> command, err |-> err]

\* resolveAlias without the lookup of lines 43-46
resolveAlias_unresolved(p, name) == name

\* parseCommandLine, lines 43-46: the canonical name of `name`
resolveAlias(p, name) == IF name \in DOMAIN p.aliases THEN p.aliases[name] ELSE name

\* booleanValue without the else branch of lines 62-64: a bare boolean option is
\* left without a value, to be taken from the next token
booleanValue_consumes(nv) ==
    IF nv.hasValue
    THEN [value |-> nv.value, hasValue |-> TRUE,
          ok |-> nv.value \in {<<"t","r","u","e">>, <<"f","a","l","s","e">>}]
    ELSE [value |-> <<>>, hasValue |-> FALSE, ok |-> TRUE]

\* parseCommandLine, lines 54-65: the value of a boolean option, [value, hasValue, ok]
booleanValue(nv) ==
    IF nv.hasValue
    THEN [value |-> nv.value, hasValue |-> TRUE,
          ok |-> nv.value \in {<<"t","r","u","e">>, <<"f","a","l","s","e">>}]
    ELSE [value |-> <<"t","r","u","e">>, hasValue |-> TRUE, ok |-> TRUE]

\* parser.parseCommandLine: the loop from index i with the results so far
RECURSIVE parseLoop(_, _, _, _, _)
\* parseValue without the isOption test of line 72: any next token is the value
parseValue_anyNext(p, a, i, options, values, name, v) ==
    IF ~v.ok
    THEN ParseResult(options, values, <<>>,
             UsageErr(NilCmd, "unexpected boolean value", v.value))
    ELSE IF v.hasValue
    THEN parseLoop(p, a, i + 1, MapAppend(options, name, v.value), values)
    ELSE IF i + 1 > Len(a)
    THEN ParseResult(options, values, <<>>, UsageErr(NilCmd, "missing option value", a[i]))
    ELSE parseLoop(p, a, i + 2, MapAppend(options, name, a[i + 1]), values)

\* lines 67-77, for the option `name` with value v = [value, hasValue, ok]
parseValue(p, a, i, options, values, name, v) ==
    IF ~v.ok
    THEN ParseResult(options, values, <<>>,
             UsageErr(NilCmd, "unexpected boolean value", v.value))
    ELSE IF v.hasValue
    THEN parseLoop(p, a, i + 1, MapAppend(options, name, v.value), values)
    ELSE IF i + 1 > Len(a) \/ isOption(a[i + 1])
    THEN ParseResult(options, values, <<>>, UsageErr(NilCmd, "missing option value", a[i]))
    ELSE parseLoop(p, a, i + 2, MapAppend(options, name, a[i + 1]), values)

\* lines 48-65, for the canonical name `name` of the token split as nv
parseNamed(p, a, i, options, values, nv, name) ==
    IF name \notin DOMAIN p.options
    THEN ParseResult(options, values, <<>>, UsageErr(NilCmd, "unrecognized option", a[i]))
    ELSE parseValue(p, a, i, options, values, name,
             IF p.options[name].boolean THEN booleanValue(nv)
             ELSE [value |-> nv.value, hasValue |-> nv.hasValue, ok |-> TRUE])

\* lines 40-46, for the option token split as nv
parseOption(p, a, i, options, values, nv) ==
    parseNamed(p, a, i, options, values, nv, resolveAlias(p, nv.name))

\* parseLoop putting the separator itself into the command, at line 31
parseLoop_keepsSeparator(p, a, i, options, values) ==
    IF i > Len(a) THEN ParseResult(options, values, <<>>, NoError)
    ELSE IF isCommandSeparator(a[i])
    THEN ParseResult(options, values, SubSeq(a, i, Len(a)), NoError)
    ELSE IF ~isOption(a[i])
    THEN parseLoop(p, a, i + 1, options, Append(values, a[i]))
    ELSE parseOption(p, a, i, options, values, splitNameValue(a[i]))

parseLoop(p, a, i, options, values) ==
    IF i > Len(a) THEN ParseResult(options, values, <<>>, NoError)
    ELSE IF isCommandSeparator(a[i])
    THEN ParseResult(options, values, SubSeq(a, i + 1, Len(a)), NoError)
    ELSE IF ~isOption(a[i])
    THEN parseLoop(p, a, i + 1, options, Append(values, a[i]))
    ELSE parseOption(p, a, i, options, values, splitNameValue(a[i]))

parseCommandLine(p, a) == parseLoop(p, a, 1, EmptyMap, <<>>)

makeParser ==
    [aliases |-> (<<"-","h">> :> <<"-","-","h","e","l","p">>),
     options |-> (<<"-","-","h","e","l","p">> :> [boolean |-> TRUE])]

(***************************************************************************)
(* strconv, as far as the decoders use it.                                 *)
(***************************************************************************)
ParseBoolTrue ==
    {<<"1">>, <<"t">>, <<"T">>, <<"T","R","U","E">>, <<"t","r","u","e">>, <<"T","r","u","e">>}

ParseBoolFalse ==
    {<<"0">>, <<"f">>, <<"F">>, <<"F","A","L","S","E">>, <<"f","a","l","s","e">>,
     <<"F","a","l","s","e">>}

\* the value of a digit or letter; 99 for a byte that is no digit in any base up to 16
DigitVal(c) ==
    CASE c = "0" -> 0 [] c = "1" -> 1 [] c = "2" -> 2 [] c = "3" -> 3 [] c = "4" -> 4
      [] c = "5" -> 5 [] c = "6" -> 6 [] c = "7" -> 7 [] c = "8" -> 8 [] c = "9" -> 9
      [] c \in {"a", "A"} -> 10 [] c \in {"b", "B"} -> 11 [] c \in {"c", "C"} -> 12
      [] c \in {"d", "D"} -> 13 [] c \in {"e", "E"} -> 14 [] c \in {"f", "F"} -> 15
      [] OTHER -> 99

\* strconv.underscoreOK: the scan from index i, k the kind of the last byte
RECURSIVE underscoreScan(_, _, _, _)
underscoreStep(s, i, k, hex, d) ==
    IF d <= 9 \/ (hex /\ d <= 15) THEN underscoreScan(s, i + 1, "0", hex)
    ELSE IF s[i] = "_" THEN k = "0" /\ underscoreScan(s, i + 1, "_", hex)
    ELSE k # "_" /\ underscoreScan(s, i + 1, "!", hex)

underscoreScan(s, i, k, hex) ==
    IF i > Len(s) THEN k # "_" ELSE underscoreStep(s, i, k, hex, DigitVal(s[i]))

\* underscoreOK on s, the sign already cut off
underscoreUnsigned(s) ==
    IF Len(s) >= 2 /\ s[1] = "0" /\ s[2] \in {"b", "B", "o", "O", "x", "X"}
    THEN underscoreScan(s, 3, "0", s[2] \in {"x", "X"})
    ELSE underscoreScan(s, 1, "^", FALSE)

underscoreOK(s) ==
    underscoreUnsigned(IF Len(s) >= 1 /\ s[1] \in {"-", "+"} THEN Tail(s) ELSE s)

\* the digit loop of strconv.ParseUint: n so far, from index i, in `base`
RECURSIVE digitLoop(_, _, _, _, _)
digitStep(s, i, n, base, max, d) ==
    IF d >= base THEN [n |-> 0, err |-> "invalid syntax"]
    ELSE IF n * base + d > max THEN [n |-> max, err |-> "value out of range"]
    ELSE digitLoop(s, i + 1, n * base + d, base, max)

digitLoop(s, i, n, base, max) ==
    IF i > Len(s) THEN [n |-> n, err |-> ""]
    ELSE IF s[i] = "_" THEN digitLoop(s, i + 1, n, base, max)
    ELSE digitStep(s, i, n, base, max, DigitVal(s[i]))

\* 2^bits - 1 for the widths the model can count in; the numerals of the model are
\* too short to reach the limit of a wider type
MaxUint(bits) == IF bits = 8 THEN 255 ELSE IF bits = 16 THEN 65535 ELSE 2147483647

\* the end of ParseUint: r is the digit loop's result on s
parseUintEnd(s, r) ==
    IF r.err = "" /\ IndexByte(s, "_") # 0 /\ ~underscoreOK(s)
    THEN [n |-> 0, err |-> "invalid syntax"]
    ELSE r

\* ParseUint on a nonempty s: the base from the prefix, then the digits
parseUintBase(s, bits, pre) ==
    parseUintEnd(s,
        digitLoop(IF s[1] # "0" THEN s ELSE IF pre THEN SubSeq(s, 3, Len(s)) ELSE Tail(s),
                  1, 0,
                  IF s[1] # "0" THEN 10
                  ELSE IF pre /\ s[2] \in {"b", "B"} THEN 2
                  ELSE IF pre /\ s[2] \in {"x", "X"} THEN 16
                  ELSE 8,
                  MaxUint(bits)))

\* strconv.ParseUint(s, 0, bits)
ParseUint(s, bits) ==
    IF s = <<>> THEN [n |-> 0, err |-> "invalid syntax"]
    ELSE parseUintBase(s, bits,
             s[1] = "0" /\ Len(s) >= 3 /\ s[2] \in {"b", "B", "o", "O", "x", "X"})

\* the end of ParseInt: u is ParseUint's result on s without its sign
parseIntSigned(neg, bits, u) ==
    IF u.err = "invalid syntax" THEN u
    ELSE IF ~neg /\ bits <= 16 /\ u.n >= (MaxUint(bits) + 1) \div 2
    THEN [n |-> (MaxUint(bits) + 1) \div 2 - 1, err |-> "value out of range"]
    ELSE IF neg /\ bits <= 16 /\ u.n > (MaxUint(bits) + 1) \div 2
    THEN [n |-> -((MaxUint(bits) + 1) \div 2), err |-> "value out of range"]
    ELSE IF u.err # "" THEN u
    ELSE [n |-> IF neg THEN -u.n ELSE u.n, err |-> ""]

\* strconv.ParseInt(s, 0, bits)
ParseInt(s, bits) ==
    IF s = <<>> THEN [n |-> 0, err |-> "invalid syntax"]
    ELSE parseIntSigned(s[1] = "-", bits,
             ParseUint(IF s[1] \in {"+", "-"} THEN Tail(s) ELSE s, bits))

(***************************************************************************)
(* decode.go.  A Go type is named by a string: "bool", "string", "int",    *)
(* "int8", and the slices "[]string" and "[]int".  A decode function takes *)
(* the list of strings given for a value and yields [err, v]: the error    *)
(* and the value stored; v is the zero value when nothing is stored.       *)
(***************************************************************************)
uintSize == 64

IsSliceType(t) == t \in {"[]string", "[]int"}

Elem(t) == IF t = "[]string" THEN "string" ELSE "int"

Zero(t) == IF t = "bool" THEN FALSE ELSE IF t \in {"int", "int8"} THEN 0 ELSE <<>>

assertArgumentCount(a, n) ==
    IF Len(a) < n THEN UsageErr(NilCmd, "not enough arguments", <<>>)
    ELSE IF Len(a) > n THEN UsageErr(NilCmd, "too many arguments", <<>>)
    ELSE NoError

\* decodeBool after the argument count check returned err
decodeBoolChecked(a, err) ==
    IF err # NoError THEN [err |-> err, v |-> FALSE]
    ELSE IF a[1] \in ParseBoolTrue THEN [err |-> NoError, v |-> TRUE]
    ELSE IF a[1] \in ParseBoolFalse THEN [err |-> NoError, v |-> FALSE]
    ELSE [err |-> BareErr("strconv.ParseBool: invalid syntax", a[1]), v |-> FALSE]

decodeBool(a) == decodeBoolChecked(a, assertArgumentCount(a, 1))

\* decodeIntSize after strconv.ParseInt returned x
decodeIntParsed(a, x) ==
    IF x.err # ""
    THEN [err |-> BareErr("strconv.ParseInt: " \o x.err, a[1]), v |-> 0]
    ELSE [err |-> NoError, v |-> x.n]

\* decodeIntSize after the argument count check returned err
decodeIntChecked(a, bits, err) ==
    IF err # NoError THEN [err |-> err, v |-> 0]
    ELSE decodeIntParsed(a, ParseInt(a[1], bits))

decodeIntSize(a, bits) == decodeIntChecked(a, bits, assertArgumentCount(a, 1))

\* decodeString after the argument count check returned err
decodeStringChecked(a, err) ==
    IF err # NoError THEN [err |-> err, v |-> <<>>] ELSE [err |-> NoError, v |-> a[1]]

decodeString(a) == decodeStringChecked(a, assertArgumentCount(a, 1))

makeValueDecoder(t, a) ==
    IF t = "bool" THEN decodeBool(a)
    ELSE IF t \in {"int", "int8"} THEN decodeIntSize(a, IF t = "int" THEN uintSize ELSE 8)
    ELSE decodeString(a)

\* the function makeSliceDecoder returns: the element decoder on a[i], a[i+1], ...
\* appending to v, until one fails
RECURSIVE sliceLoop(_, _, _, _)
\* r is the element decoder's result on a[i]
sliceElem(t, a, i, v, r) ==
    IF r.err # NoError THEN [err |-> r.err, v |-> Append(v, r.v)]
    ELSE sliceLoop(t, a, i + 1, Append(v, r.v))

sliceLoop(t, a, i, v) ==
    IF i > Len(a) THEN [err |-> NoError, v |-> v]
    ELSE sliceElem(t, a, i, v, makeValueDecoder(Elem(t), <<a[i]>>))

makeSliceDecoder(t, a) == sliceLoop(t, a, 1, <<>>)

\* the decode function makeStructFieldDecoder and configure choose for type t
decodeFunc(t, a) == IF IsSliceType(t) THEN makeSliceDecoder(t, a) ELSE makeValueDecoder(t, a)

(***************************************************************************)
(* The schema.  A structField is [typ, flags, envvars, defval]: one        *)
(* exported field of the options struct as forEachStructField reports it.  *)
(* A structFieldDecoder adds index (the position of the field in the       *)
(* struct; 0 stands for the nil index of the synthesized "--help"),        *)
(* boolean and slice; its decode function is decodeFunc(typ, _).           *)
(***************************************************************************)
HelpFlag == <<"-","-","h","e","l","p">>

makeStructFieldDecoder(f, k) ==
    [index |-> k, flags |-> f.flags, envvars |-> f.envvars, defval |-> f.defval,
     hidden |-> f.hidden,
     boolean |-> f.typ = "bool", slice |-> IsSliceType(f.typ), typ |-> f.typ]

\* makeStructDecoder's loops: flag i of field k, with the tables built so far
RECURSIVE structDecoderLoop(_, _, _, _, _)
\* structDecoderLoop without the test of lines 79-81: a flag is checked against the
\* canonical names only, not against the aliases
structDecoderLoop_aliasesUnchecked(fields, k, i, p, sd) ==
    IF k > Len(fields) THEN [parser |-> p, options |-> sd, panic |-> FALSE]
    ELSE IF i > Len(fields[k].flags) THEN structDecoderLoop(fields, k + 1, 1, p, sd)
    ELSE IF fields[k].flags[i] \in DOMAIN p.options
    THEN [parser |-> p, options |-> sd, panic |-> TRUE]
    ELSE IF i < Len(fields[k].flags)
    THEN structDecoderLoop(fields, k, i + 1,
             [p EXCEPT !.aliases =
                 (fields[k].flags[i] :> fields[k].flags[Len(fields[k].flags)]) @@ @],
             sd)
    ELSE structDecoderLoop(fields, k, i + 1,
             [p EXCEPT !.options =
                 @ @@ (fields[k].flags[i] :> [boolean |-> fields[k].typ = "bool"])],
             sd @@ (fields[k].flags[i] :> makeStructFieldDecoder(fields[k], k)))

structDecoderLoop(fields, k, i, p, sd) ==
    IF k > Len(fields) THEN [parser |-> p, options |-> sd, panic |-> FALSE]
    ELSE IF i > Len(fields[k].flags) THEN structDecoderLoop(fields, k + 1, 1, p, sd)
    ELSE IF fields[k].flags[i] \in DOMAIN p.aliases \/ fields[k].flags[i] \in DOMAIN p.options
    THEN [parser |-> p, options |-> sd, panic |-> TRUE]
    ELSE IF i < Len(fields[k].flags)
    THEN structDecoderLoop(fields, k, i + 1,
             [p EXCEPT !.aliases =
                 @ @@ (fields[k].flags[i] :> fields[k].flags[Len(fields[k].flags)])],
             sd)
    ELSE structDecoderLoop(fields, k, i + 1,
             [p EXCEPT !.options =
                 @ @@ (fields[k].flags[i] :> [boolean |-> fields[k].typ = "bool"])],
             sd @@ (fields[k].flags[i] :> makeStructFieldDecoder(fields[k], k)))

makeStructDecoder(fields) ==
    structDecoderLoop(fields, 1, 1, makeParser,
        HelpFlag :> [index |-> 0, flags |-> << <<"-","h">>, HelpFlag >>, envvars |-> <<>>,
                     defval |-> <<>>, hidden |-> FALSE,
                     boolean |-> TRUE, slice |-> FALSE, typ |-> "bool"])

(***************************************************************************)
(* command.go: CommandFunc.  cmd.Func is given by its reflected type:      *)
(* [nil, in, fields, variadic, out], where `in` lists the parameter types  *)
(* ("context.Context", "struct" or a value type; the last one is the       *)
(* variadic ...string when variadic), `fields` the structFields of the     *)
(* struct parameter and `out` the result types.                            *)
(***************************************************************************)
NilParser == [aliases |-> EmptyMap, options |-> EmptyMap]

NilMap == [isNil |-> TRUE, keys |-> {}]

\* Command(fn), or a CommandFunc literal with the exported fields given
CommandFunc(fn, ignore, ignoreMap) ==
    [Func |-> fn, IgnoreEnvOptions |-> ignore, IgnoreEnvOptionsMap |-> ignoreMap,
     function |-> FALSE, parser |-> NilParser, options |-> EmptyMap, values |-> <<>>,
     variadic |-> FALSE, context |-> FALSE]

\* the *CommandFunc node itself, as a Function value
Self == [names |-> <<>>, base |-> "CommandFunc"]

\* the positional decoders configure collects: parameters i..n, up to the first slice
RECURSIVE valueDecoders(_, _, _)
valueDecoders(in, i, n) ==
    IF i > n THEN <<>>
    ELSE IF IsSliceType(in[i]) THEN <<in[i]>>
    ELSE <<in[i]>> \o valueDecoders(in, i + 1, n)

\* configure, lines 193-209: the result types are none, (error) or (int, error)
outOK(t) == t.out \in {<<>>, <<"error">>, <<"int", "error">>}

\* configure, lines 168-190: the struct at parameter x + 1, sd its schema, then the
\* positional parameters
configureStruct(c, t, x, sd) ==
    IF t.in[x + 1] # "struct" \/ sd.panic THEN [cmd |-> c, panic |-> TRUE]
    ELSE [cmd |-> [c EXCEPT !.parser = sd.parser, !.options = sd.options,
                            !.values = @ \o valueDecoders(t.in, x + 2,
                                           IF t.variadic THEN Len(t.in) - 1 ELSE Len(t.in))],
          panic |-> ~outOK(t)]

\* configure, lines 158-175, for a function with parameters; c has function,
\* variadic and context set
configureParams(c, t, x) ==
    IF x < Len(t.in) THEN configureStruct(c, t, x, makeStructDecoder(t.fields))
    ELSE [cmd |-> c, panic |-> ~outOK(t)]

\* configure, line 159, for a function without parameters
configureEmpty(c, t, sd) ==
    [cmd |-> [c EXCEPT !.parser = sd.parser, !.options = sd.options],
     panic |-> sd.panic \/ ~outOK(t)]

\* configure without the test of lines 139-141: a configured node is derived again
configure_again(c) ==
    IF c.Func.nil THEN [cmd |-> c, panic |-> TRUE]
    ELSE IF Len(c.Func.in) = 0
    THEN configureEmpty([c EXCEPT !.function = TRUE, !.variadic = c.Func.variadic],
                        c.Func, makeStructDecoder(<<>>))
    ELSE configureParams(
             [c EXCEPT !.function = TRUE, !.variadic = c.Func.variadic,
                       !.context = c.Func.in[1] = "context.Context"],
             c.Func, IF c.Func.in[1] = "context.Context" THEN 1 ELSE 0)

\* CommandFunc.configure: [cmd, panic], cmd as the call leaves the node
configure(c) ==
    IF c.function THEN [cmd |-> c, panic |-> FALSE]
    ELSE IF c.Func.nil THEN [cmd |-> c, panic |-> TRUE]
    ELSE IF Len(c.Func.in) = 0
    THEN configureEmpty([c EXCEPT !.function = TRUE, !.variadic = c.Func.variadic],
                        c.Func, makeStructDecoder(<<>>))
    ELSE configureParams(
             [c EXCEPT !.function = TRUE, !.variadic = c.Func.variadic,
                       !.context = c.Func.in[1] = "context.Context"],
             c.Func, IF c.Func.in[1] = "context.Context" THEN 1 ELSE 0)

\* wantHelp looking at the first value only
wantHelp_firstValue(options) ==
    /\ HelpFlag \in DOMAIN options
    /\ \/ Len(options[HelpFlag]) = 0
       \/ options[HelpFlag][1] = <<"t","r","u","e">>

wantHelp(options) ==
    /\ HelpFlag \in DOMAIN options
    /\ \/ Len(options[HelpFlag]) = 0
       \/ \E i \in 1..Len(options[HelpFlag]) : options[HelpFlag][i] = <<"t","r","u","e">>

\* ignoreEnvMap making a new map of the names listed at each call
ignoreEnvMap_reset(c) ==
    [isNil |-> FALSE,
     keys |-> {c.IgnoreEnvOptions[i] : i \in 1..Len(c.IgnoreEnvOptions)}]

\* Call, lines 231-239: the IgnoreEnvOptionsMap after the call's conversion
ignoreEnvMap(c) ==
    [isNil |-> FALSE,
     keys |-> c.IgnoreEnvOptionsMap.keys
                \cup {c.IgnoreEnvOptions[i] : i \in 1..Len(c.IgnoreEnvOptions)}]

\* Call, lines 248-253: the value of the first name of envvars, from index i on,
\* that e defines
RECURSIVE firstEnv(_, _, _)
\* r is the lookup of envvars[i]
firstEnvFound(envvars, e, i, r) == IF r.ok THEN r ELSE firstEnv(envvars, e, i + 1)

firstEnv(envvars, e, i) ==
    IF i > Len(envvars) THEN [v |-> <<>>, ok |-> FALSE]
    ELSE firstEnvFound(envvars, e, i, lookupEnv(envvars[i], e))

\* envMergeFound with the test of line 247 dropped: the environment value replaces
\* the values the command line gave
envMergeFound_overrides(c, ignored, options, found) ==
    [name \in DOMAIN options
               \cup {n \in DOMAIN c.options : n \notin ignored /\ found[n].ok} |->
        IF name \in DOMAIN c.options /\ name \notin ignored /\ found[name].ok
        THEN <<found[name].v>> ELSE options[name]]

\* Call, lines 241-255: the options after the environment merge. found[name] is
\* what the environment gives for the field `name`
envMergeFound(c, ignored, options, found) ==
    [name \in DOMAIN options
               \cup {n \in DOMAIN c.options : n \notin ignored /\ found[n].ok} |->
        IF name \in DOMAIN options THEN options[name] ELSE <<found[name].v>>]

envMerge(c, ignored, options, e) ==
    envMergeFound(c, ignored, options,
        [name \in DOMAIN c.options |-> firstEnv(c.options[name].envvars, e, 1)])

\* Call, lines 257-261: the options after the default merge
defaultMerge(c, options) ==
    [name \in DOMAIN options
               \cup {n \in DOMAIN c.options : c.options[n].defval \notin {<<>>, <<"-">>}} |->
        IF name \in DOMAIN options THEN options[name] ELSE <<c.options[name].defval>>]

\* missingRequired without the slice test of line 264
missingRequired_slices(c, options) ==
    {name \in DOMAIN c.options :
        /\ name \notin DOMAIN options
        /\ c.options[name].defval = <<>>
        /\ ~c.options[name].boolean}

\* Call, lines 263-267: the fields the required check can report
missingRequired(c, options) ==
    {name \in DOMAIN c.options :
        /\ name \notin DOMAIN options
        /\ c.options[name].defval = <<>>
        /\ ~c.options[name].boolean
        /\ ~c.options[name].slice}

\* decodeOption returning the error of the field decoder as it is
decodeOption_unwrapped(f, option, r) ==
    IF r.err.kind = "nil" /\ f.index = 0
    THEN [kind |-> "panic", err |-> NoError, v |-> r.v]
    ELSE IF r.err.kind = "nil"
    THEN [kind |-> "ok", err |-> NoError, v |-> r.v]
    ELSE [kind |-> "error", v |-> r.v, err |-> r.err]

\* structDecoder.decode on one option, r the result of its decode function: "ok"
\* with the value stored, "error", or "panic" when the bool is stored through the
\* nil index, into the struct itself
decodeOption(f, option, r) ==
    IF r.err.kind = "nil" /\ f.index = 0
    THEN [kind |-> "panic", err |-> NoError, v |-> r.v]
    ELSE IF r.err.kind = "nil"
    THEN [kind |-> "ok", err |-> NoError, v |-> r.v]
    ELSE [kind |-> "error", v |-> r.v,
          err |-> [kind |-> "Usage", Cmd |-> r.err.Cmd, msg |-> "decoding",
                   name |-> option, cause |-> r.err.msg,
                   closest |-> <<>>]]

\* structDecoder.decode, res[o] the result on option o: the results the map's
\* iteration orders can give. The loop stops at the first option that fails, and
\* any failing option can be that one.
decodeResults(sd, fields, options, res) ==
    IF \A o \in DOMAIN options : res[o].kind = "ok"
    THEN {[kind |-> "ok", err |-> NoError,
           value |-> [k \in 1..Len(fields) |->
                        IF \E o \in DOMAIN options : sd[o].index = k
                        THEN res[CHOOSE o \in DOMAIN options : sd[o].index = k].v
                        ELSE Zero(fields[k].typ)]]}
    ELSE {[kind |-> res[o].kind, err |-> res[o].err, value |-> <<>>] :
             o \in {x \in DOMAIN options : res[x].kind # "ok"}}

decode(sd, fields, options) ==
    decodeResults(sd, fields, options,
        [o \in DOMAIN options |->
            decodeOption(sd[o], o, decodeFunc(sd[o].typ, options[o]))])

\* Call, lines 306-330: parameters i..n bound from `values`, j the decoder index
RECURSIVE bindPositional(_, _, _, _, _, _)
\* lines 310-317: r is the slice decoder's result on all the values left
bindSlice(values, params, r) ==
    IF r.err # NoError THEN [err |-> r.err, params |-> params, values |-> values]
    ELSE [err |-> NoError, params |-> Append(params, r.v), values |-> <<>>]

\* lines 326-329: r is the decoder's result on the value taken, rest the values left
bindValue(c, i, n, j, rest, params, r) ==
    IF r.err # NoError THEN [err |-> r.err, params |-> params, values |-> rest]
    ELSE bindPositional(c, i + 1, n, j + 1, rest, Append(params, r.v))

\* bindPositional taking the last value left, not the first, at lines 319-324
bindPositional_lastValue(c, i, n, j, values, params) ==
    IF i > n THEN [err |-> NoError, params |-> params, values |-> values]
    ELSE IF IsSliceType(c.Func.in[i])
    THEN bindSlice(values, params, decodeFunc(c.values[j], values))
    ELSE bindValue(c, i, n, j,
             IF Len(values) = 0 THEN values ELSE SubSeq(values, 1, Len(values) - 1), params,
             decodeFunc(c.values[j],
                 IF Len(values) = 0 THEN << <<>> >>
                 ELSE SubSeq(values, Len(values), Len(values))))

bindPositional(c, i, n, j, values, params) ==
    IF i > n THEN [err |-> NoError, params |-> params, values |-> values]
    ELSE IF IsSliceType(c.Func.in[i])
    THEN bindSlice(values, params, decodeFunc(c.values[j], values))
    ELSE bindValue(c, i, n, j, IF Len(values) = 0 THEN values ELSE Tail(values), params,
             decodeFunc(c.values[j],
                 IF Len(values) = 0 THEN << <<>> >> ELSE SubSeq(values, 1, 1)))

(***************************************************************************)
(* What cmd.Func can return: nothing, an error, or a code and an error.    *)
(***************************************************************************)
MaxCode == 2

FuncErrors ==
    {NoError, BareErr("failed", <<>>), UsageErr(NilCmd, "bad input", <<>>), HelpErr(NilCmd)}

FuncResults(out) ==
    IF out = <<>> THEN {<<>>}
    ELSE IF out = <<"error">> THEN {<<e>> : e \in FuncErrors}
    ELSE {<<n, e>> : n \in 0..MaxCode, e \in FuncErrors}

\* Call, lines 373-378: a Help or a Usage the function returned gets the node
setCmd(err) == IF err.kind \in {"Help", "Usage"} THEN [err EXCEPT !.Cmd = Self] ELSE err

\* mapResult setting the code to 1 for any error, also when cmd.Func gave a code
mapResult_errorIsOne(r) ==
    IF Len(r) = 0 THEN [code |-> 0, err |-> NoError]
    ELSE IF Len(r) = 1
    THEN [code |-> IF r[1] # NoError THEN 1 ELSE 0, err |-> setCmd(r[1])]
    ELSE [code |-> IF r[2] # NoError THEN 1 ELSE r[1], err |-> setCmd(r[2])]

\* Call, lines 361-380: the (code, error) Call returns for the results r of cmd.Func
mapResult(r) ==
    IF Len(r) = 0 THEN [code |-> 0, err |-> NoError]
    ELSE IF Len(r) = 1
    THEN [code |-> IF r[1] # NoError THEN 1 ELSE 0, err |-> setCmd(r[1])]
    ELSE [code |-> r[1], err |-> setCmd(r[2])]

Returned(c, code, err) == [cmd |-> c, pc |-> "done", code |-> code, err |-> err, call |-> <<>>]

Panicked(c) == [cmd |-> c, pc |-> "panic", code |-> 0, err |-> NoError, call |-> <<>>]

\* Call, lines 354-381: cmd.Func called with `call`, returning r; m = mapResult(r)
invoked(c, call, r, m) ==
    [cmd |-> c, pc |-> "done", code |-> m.code, err |-> m.err,
     call |-> <<[call EXCEPT !.result = r]>>]

\* callCheck without the test of lines 340-345: a variadic function is called with
\* an empty command
callCheck_emptyCommand(c, cx, d, b, command, np, n) ==
    IF Len(b.values) # 0
    THEN {Returned(c, 1, UsageErr(Self, "too many positional arguments", <<>>))}
    ELSE IF ~c.variadic /\ Len(command) # 0
    THEN {Returned(c, 1, UsageErr(Self, "unsupported command after separator", <<>>))}
    ELSE IF np # n THEN {Panicked(c)}
    ELSE {invoked(c, [ctx |-> IF c.context THEN cx ELSE "none", config |-> d.value,
                      params |-> b.params, command |-> command, result |-> <<>>],
                  r, mapResult(r)) : r \in FuncResults(c.Func.out)}

\* Call, lines 333-359: the checks after the positional parameters, then the call of
\* cmd.Func; np is the number of parameters bound, n the number the function takes
\* before its variadic one
callCheck(c, cx, d, b, command, np, n) ==
    IF Len(b.values) # 0
    THEN {Returned(c, 1, UsageErr(Self, "too many positional arguments", <<>>))}
    ELSE IF c.variadic /\ Len(command) = 0
    THEN {Returned(c, 1, UsageErr(Self, "missing command after separator", <<>>))}
    ELSE IF ~c.variadic /\ Len(command) # 0
    THEN {Returned(c, 1, UsageErr(Self, "unsupported command after separator", <<>>))}
    ELSE IF np # n THEN {Panicked(c)}
    ELSE {invoked(c, [ctx |-> IF c.context THEN cx ELSE "none", config |-> d.value,
                      params |-> b.params, command |-> command, result |-> <<>>],
                  r, mapResult(r)) : r \in FuncResults(c.Func.out)}

\* callDecoded returning the error of a positional parameter before the error of
\* the options
callDecoded_positionalFirst(c, cx, d, b, command, x, n) ==
    IF d.kind = "panic" THEN {Panicked(c)}
    ELSE IF b.err # NoError THEN {Returned(c, 1, b.err)}
    ELSE IF d.kind = "error" THEN {Returned(c, 1, [d.err EXCEPT !.Cmd = Self])}
    ELSE callCheck(c, cx, d, b, command, x + Len(b.params), n)

\* Call, lines 289-331: d is the result of decoding the options, b of binding the
\* positional parameters
callDecoded(c, cx, d, b, command, x, n) ==
    IF d.kind = "panic" THEN {Panicked(c)}
    ELSE IF d.kind = "error" THEN {Returned(c, 1, [d.err EXCEPT !.Cmd = Self])}
    ELSE IF b.err # NoError THEN {Returned(c, 1, b.err)}
    ELSE callCheck(c, cx, d, b, command, x + Len(b.params), n)

\* Call, lines 269-331: x parameters come before the positional ones (the context,
\* the struct), n before the variadic one
callParams(c, cx, options, values, command, x0, x, n) ==
    IF ~c.context /\ cx \notin {"nil", "TODO"} THEN {Panicked(c)}
    ELSE UNION {callDecoded(c, cx, d,
                    IF Len(c.Func.in) > 0
                    THEN bindPositional(c, x + 1, n, 1, values, <<>>)
                    ELSE [err |-> NoError, params |-> <<>>, values |-> values],
                    command, x, n) :
                  d \in IF x0 < Len(c.Func.in)
                        THEN decode(c.options, c.Func.fields, options)
                        ELSE {[kind |-> "ok", err |-> NoError, value |-> <<>>]}}

callBind(c, cx, options, values, command) ==
    callParams(c, cx, options, values, command,
        IF c.context THEN 1 ELSE 0,
        IF (IF c.context THEN 1 ELSE 0) < Len(c.Func.in)
        THEN (IF c.context THEN 2 ELSE 1) ELSE (IF c.context THEN 1 ELSE 0),
        IF c.variadic THEN Len(c.Func.in) - 1 ELSE Len(c.Func.in))

\* Call, lines 263-267, then the rest of the call: `missing` are the required
\* fields left unset
callRequired(c, cx, options, values, command, missing) ==
    IF missing # {}
    THEN {Returned(c, 1, UsageErr(Self, "missing required flag", name)) : name \in missing}
    ELSE callBind(c, cx, options, values, command)

\* Call, lines 231-261: c has the IgnoreEnvOptionsMap of this call
callMerge(c, cx, e, parsed, options) ==
    callRequired(c, cx, options, parsed.values, parsed.command, missingRequired(c, options))

\* Call, lines 222-229, on the configured node c
callParsed(c, cx, e, parsed, c5) ==
    IF parsed.err # NoError THEN {Returned(c, 1, parsed.err)}
    ELSE IF wantHelp(parsed.options) THEN {Returned(c, 0, HelpErr(Self))}
    ELSE callMerge(c5, cx, e, parsed,
             defaultMerge(c5, envMerge(c5, c5.IgnoreEnvOptionsMap.keys, parsed.options, e)))

callConfigured(conf, cx, a, e) ==
    IF conf.panic THEN {Panicked(conf.cmd)}
    ELSE callParsed(conf.cmd, cx, e, parseCommandLine(conf.cmd.parser, a),
             [conf.cmd EXCEPT !.IgnoreEnvOptionsMap = ignoreEnvMap(conf.cmd)])

\* CommandFunc.Call(ctx, args, env) on node c: every result the call can have,
\* each with the node as the call leaves it
CallResults(c, cx, a, e) == callConfigured(configure(c), cx, a, e)

(***************************************************************************)
(* The state machine: one Call on the node with the inputs Init drew.      *)
(***************************************************************************)
Call ==
    /\ pc = "ready"
    /\ \E o \in CallResults(cmd, ctx, args, env) :
          /\ cmd' = o.cmd
          /\ pc' = o.pc
          /\ ret' = [code |-> o.code, err |-> o.err]
          /\ calls' = calls \o o.call
    /\ UNCHANGED <<ctx, args, env, routed, exit, Err, structType, got>>

Next == Call

(***************************************************************************)
(* Inputs.  Init draws the node, the context, the argument vector and the  *)
(* environment snapshot of the call; every specification below has the     *)
(* same Next and differs by the programs and inputs it draws.              *)
(***************************************************************************)
\* the argument vectors of at most MaxArgs tokens
ArgVectors(tokens) == UNION {[1..n -> tokens] : n \in 0..MaxArgs}

InitWith(cmds, ctxs, tokens, envs) ==
    /\ cmd \in cmds
    /\ ctx \in ctxs
    /\ args \in ArgVectors(tokens)
    /\ env \in envs
    /\ pc = "ready"
    /\ ret = [code |-> 0, err |-> NoError]
    /\ calls = <<>>
    /\ routed = <<>>
    /\ exit = 0
    /\ Err = <<>>
    /\ structType = <<>>
    /\ got = <<>>

\* a structField as forEachStructField reports it, for a field without a hidden tag
Field(typ, flags, envvars, defval) ==
    [typ |-> typ, flags |-> flags, envvars |-> envvars, defval |-> defval,
     hidden |-> FALSE]

\* the reflected type of a function value
Fn(in, fields, variadic, out) ==
    [nil |-> FALSE, in |-> in, fields |-> fields, variadic |-> variadic, out |-> out]

\* name=value, as a token or as an environment entry
Eq(name, value) == name \o <<"=">> \o value

name_ == <<"-","-","n","a","m","e">>
lastname_ == <<"-","-","l","a","s","t","-","n","a","m","e">>
debug_ == <<"-","-","d","e","b","u","g">>
title_ == <<"-","-","t","i","t","l","e">>
NAME == <<"N","A","M","E">>
SURNAME == <<"S","U","R","N","A","M","E">>
LAST_NAME == <<"L","A","S","T","_","N","A","M","E">>
DEBUG == <<"D","E","B","U","G">>
INPUT == <<"I","N","P","U","T">>
TITLE == <<"T","I","T","L","E">>

(***************************************************************************)
(* Spec: the environment and default merges.                               *)
(*   func(config struct {                                                  *)
(*       Name    string   `flag:"-n,--name" default:"Luke"`                *)
(*       Surname string   `flag:"-s,--surname,--last-name"`                *)
(*       Debug   bool     `flag:"-d,--debug"`                              *)
(*       Input   []string `flag:"-i,--input"`                              *)
(*       Title   string   `flag:"-t,--title" default:"-"`                  *)
(*   })                                                                    *)
(* and the same function with Title left without a default.                *)
(***************************************************************************)
envConfig ==
    << Field("string", << <<"-","n">>, name_ >>, <<NAME>>, <<"L","u","k","e">>),
       Field("string", << <<"-","s">>, <<"-","-","s","u","r","n","a","m","e">>, lastname_ >>,
             <<SURNAME, LAST_NAME>>, <<>>),
       Field("bool", << <<"-","d">>, debug_ >>, <<DEBUG>>, <<>>),
       Field("[]string", << <<"-","i">>, <<"-","-","i","n","p","u","t">> >>, <<INPUT>>, <<>>),
       Field("string", << <<"-","t">>, title_ >>, <<TITLE>>, <<"-">>) >>

\* the same struct with no default for Title: Surname and Title are required
requiredConfig == [envConfig EXCEPT ![5].defval = <<>>]

EnvCommands ==
    {CommandFunc(Fn(<<"struct">>, envConfig, FALSE, <<>>), ignore, ignoreMap) :
        ignore \in {<<>>, <<name_>>, <<lastname_, debug_>>},
        ignoreMap \in {NilMap, [isNil |-> FALSE, keys |-> {title_}]}}
    \cup {CommandFunc(Fn(<<"struct">>, requiredConfig, FALSE, <<>>), ignore, NilMap) :
            ignore \in {<<>>, <<lastname_>>}}

EnvTokens ==
    {Eq(name_, <<"a">>), Eq(<<"-","s">>, <<"b">>), Eq(lastname_, <<"c">>), <<"-","d">>,
     Eq(debug_, <<"f","a","l","s","e">>), Eq(<<"-","i">>, <<"x">>), Eq(<<"-","t">>, <<"y">>)}

EnvSnapshots ==
    {<<>>,
     <<Eq(NAME, <<"e">>)>>,
     <<Eq(SURNAME, <<"f">>)>>,
     <<Eq(LAST_NAME, <<"g">>)>>,
     <<Eq(LAST_NAME, <<"g">>), Eq(SURNAME, <<"f">>), Eq(SURNAME, <<"h">>)>>,
     <<Eq(SURNAME, <<"f">>), Eq(DEBUG, <<"t","r","u","e">>), Eq(INPUT, <<"z">>)>>,
     <<Eq(LAST_NAME, <<"g">>), Eq(TITLE, <<"w">>), Eq(NAME, <<>>)>>,
     <<Eq(SURNAME, <<"f">>), Eq(NAME, <<"e">>), Eq(DEBUG, <<"x">>), Eq(TITLE, <<"w">>)>>}

Init == InitWith(EnvCommands, {"nil"}, EnvTokens, EnvSnapshots)

Spec == Init /\ [][Next]_vars

(***************************************************************************)
(* What the inputs of a call say, read off the tokens themselves.          *)
(***************************************************************************)
\* the call returned after invoking cmd.Func
Invoked == pc = "done" /\ Len(calls) = 1

\* the call returned (code, a Usage) with this message, without invoking cmd.Func
UsageReturned(m) ==
    /\ pc = "done" /\ calls = <<>>
    /\ ret.code = 1 /\ ret.err.kind = "Usage" /\ ret.err.msg = m

\* the flags of field f: the canonical one is the last
Canonical(f) == f.flags[Len(f.flags)]

\* the values that the tokens a[i..] of the forms flag=value and flag (a bare
\* boolean) give to field f, in order; only for vectors of such tokens
RECURSIVE GivenValues(_, _, _)
GivenValues(a, f, i) ==
    IF i > Len(a) THEN <<>>
    ELSE (IF \E fl \in {f.flags[j] : j \in 1..Len(f.flags)} : a[i] = fl
          THEN << <<"t","r","u","e">> >>
          ELSE IF \E fl \in {f.flags[j] : j \in 1..Len(f.flags)} : HasPrefix(a[i], fl \o <<"=">>)
          THEN <<SubSeq(a[i], 1 + Len(CHOOSE fl \in {f.flags[j] : j \in 1..Len(f.flags)} :
                                         HasPrefix(a[i], fl \o <<"=">>)) + 1, Len(a[i]))>>
          ELSE <<>>)
         \o GivenValues(a, f, i + 1)

\* the entries of e that define the variable `name`
EnvEntries(name, e) == {j \in 1..Len(e) : HasPrefix(e[j], name \o <<"=">>)}

\* the candidates of field f that e defines, by their position in f.envvars
EnvPresent(f, e) == {i \in 1..Len(f.envvars) : EnvEntries(f.envvars[i], e) # {}}

Min(S) == CHOOSE x \in S : \A y \in S : x <= y

\* the value e gives to the first candidate of f it defines
EnvValue(f, e) ==
    SubSeq(e[Min(EnvEntries(f.envvars[Min(EnvPresent(f, e))], e))],
           Len(f.envvars[Min(EnvPresent(f, e))]) + 2,
           Len(e[Min(EnvEntries(f.envvars[Min(EnvPresent(f, e))], e))]))

\* the field is excluded from the environment fallback for this node
Excluded(f) ==
    \/ Canonical(f) \in cmd.IgnoreEnvOptionsMap.keys
    \/ \E i \in 1..Len(cmd.IgnoreEnvOptions) : cmd.IgnoreEnvOptions[i] = Canonical(f)

\* the field has a default to merge
HasDefault(f) == f.defval \notin {<<>>, <<"-">>}

(***************************************************************************)
(* C1.  For every option field that is not excluded from the environment   *)
(* fallback, the value bound when the callable is invoked is decoded from  *)
(* the command-line values if at least one was given; otherwise from the   *)
(* value of the first candidate name, in declared order, that the          *)
(* environment snapshot defines; otherwise from the default when it is     *)
(* neither empty nor "-".  So an environment value is never used when a    *)
(* command-line value exists and a default never replaces an environment   *)
(* value that is present.                                                  *)
(***************************************************************************)
C1_Source(f) ==
    IF GivenValues(args, f, 1) # <<>> THEN GivenValues(args, f, 1)
    ELSE IF EnvPresent(f, env) # {} THEN <<EnvValue(f, env)>>
    ELSE <<f.defval>>

C1_Precedence ==
    Invoked =>
        \A k \in 1..Len(cmd.Func.fields) :
            (/\ ~Excluded(cmd.Func.fields[k])
             /\ \/ GivenValues(args, cmd.Func.fields[k], 1) # <<>>
                \/ EnvPresent(cmd.Func.fields[k], env) # {}
                \/ HasDefault(cmd.Func.fields[k]))
            => calls[1].config[k]
                 = decodeFunc(cmd.Func.fields[k].typ, C1_Source(cmd.Func.fields[k])).v

\* Surname and Debug come from the command line although the environment defines
\* them, Name and Title from the environment although Name has a default
C1_Witness ==
    /\ Invoked
    /\ cmd.IgnoreEnvOptions = <<>> /\ cmd.IgnoreEnvOptionsMap.keys = {}
    /\ args = <<Eq(<<"-","s">>, <<"b">>), <<"-","d">>>>
    /\ env = <<Eq(SURNAME, <<"f">>), Eq(NAME, <<"e">>), Eq(DEBUG, <<"x">>), Eq(TITLE, <<"w">>)>>
    /\ calls[1].config = << <<"e">>, <<"b">>, TRUE, <<>>, <<"w">> >>

(***************************************************************************)
(* SpecHelp: the help option on                                            *)
(*   func(config struct { Surname string `flag:"-s,--surname"` }) error    *)
(*   func()                                                                *)
(*   func(ctx context.Context)                                             *)
(***************************************************************************)
surname_ == <<"-","-","s","u","r","n","a","m","e">>

helpConfig == << Field("string", << <<"-","s">>, surname_ >>, <<SURNAME>>, <<>>) >>

HelpCommands ==
    {CommandFunc(fn, <<>>, NilMap) :
        fn \in {Fn(<<"struct">>, helpConfig, FALSE, <<"error">>),
                Fn(<<>>, <<>>, FALSE, <<>>),
                Fn(<<"context.Context">>, <<>>, FALSE, <<>>)}}

HelpTokens ==
    {<<"-","h">>, HelpFlag, Eq(<<"-","h">>, <<"t","r","u","e">>),
     Eq(HelpFlag, <<"f","a","l","s","e">>), <<"-","-">>, Eq(<<"-","s">>, <<"b">>),
     <<"-","s">>, <<"c">>, <<"-","-","b","o","g","u","s">>}

InitHelp == InitWith(HelpCommands, {"nil", "background"}, HelpTokens, {<<>>})

SpecHelp == InitHelp /\ [][Next]_vars

\* a token asking for help: -h or --help, bare or =true
IsHelpToken(tok) ==
    tok \in {<<"-","h">>, HelpFlag, Eq(<<"-","h">>, <<"t","r","u","e">>),
             Eq(HelpFlag, <<"t","r","u","e">>)}

\* the vector has such a token before any "--"
HelpAsked(a) ==
    \E i \in 1..Len(a) : IsHelpToken(a[i]) /\ \A j \in 1..(i - 1) : a[j] # <<"-","-">>

\* the call returned (0, a Help) without invoking cmd.Func
HelpReturned == pc = "done" /\ calls = <<>> /\ ret.code = 0 /\ ret.err.kind = "Help"

ParseOK == parseCommandLine(cmd.parser, args).err = NoError

\* field f is left unset by the command line, the environment and the default
Unset(f) ==
    /\ GivenValues(args, f, 1) = <<>>
    /\ Excluded(f) \/ EnvPresent(f, env) = {}
    /\ ~HasDefault(f)

\* field f has an empty default and is neither a boolean nor a slice
IsRequired(f) == f.defval = <<>> /\ f.typ # "bool" /\ ~IsSliceType(f.typ)

\* the required fields left unset
UnsetRequired == {k \in 1..Len(cmd.Func.fields) :
                     IsRequired(cmd.Func.fields[k]) /\ Unset(cmd.Func.fields[k])}

(***************************************************************************)
(* C3.  When the call gets past parsing and the help test, and after the   *)
(* command-line, environment and default merges a field with an empty      *)
(* default that is neither boolean nor slice is still unset, Call returns  *)
(* (1, a Usage "missing required flag") naming the canonical flag of one   *)
(* such field, and does not invoke the callable.  The error is returned in *)
(* no other case, so a boolean or a slice field never triggers it.         *)
(***************************************************************************)
C3_MissingRequired ==
    (pc # "ready" /\ ParseOK /\ ~HelpAsked(args)) =>
        /\ UnsetRequired # {} =>
              /\ UsageReturned("missing required flag")
              /\ \E k \in UnsetRequired : ret.err.name = Canonical(cmd.Func.fields[k])
        /\ ret.err.msg = "missing required flag" => UnsetRequired # {}

\* Surname and Title are required and unset, and so is the slice Input; the error
\* names Title
C3_Witness ==
    /\ UsageReturned("missing required flag")
    /\ UnsetRequired = {2, 5}
    /\ Unset(cmd.Func.fields[4])
    /\ ret.err.name = title_
    /\ args = << <<"-","d">> >>

(***************************************************************************)
(* SpecBool: a boolean option on                                           *)
(*   func(config struct { Flag bool `flag:"-f,--flag"` }, rest []string)   *)
(* and on the same function with default:"true" on Flag.                   *)
(***************************************************************************)
f_ == <<"-","f">>
flag_ == <<"-","-","f","l","a","g">>
FLAG == <<"F","L","A","G">>
True == <<"t","r","u","e">>
False == <<"f","a","l","s","e">>

boolConfig(defval) == << Field("bool", <<f_, flag_>>, <<FLAG>>, defval) >>

BoolCommands ==
    {CommandFunc(Fn(<<"struct", "[]string">>, boolConfig(defval), FALSE, <<>>), <<>>, NilMap) :
        defval \in {<<>>, True}}

BoolTokens ==
    {f_, flag_, Eq(f_, True), Eq(flag_, True), Eq(f_, False), Eq(flag_, False),
     Eq(f_, <<"1">>), Eq(flag_, <<>>), <<"x">>, False}

InitBool ==
    InitWith(BoolCommands, {"nil"}, BoolTokens, {<<>>, <<Eq(FLAG, True)>>, <<Eq(FLAG, False)>>})

SpecBool == InitBool /\ [][Next]_vars

\* the tokens of the vector that name a flag of field f
FlagTokens(a, f) ==
    {i \in 1..Len(a) : \E j \in 1..Len(f.flags) :
        a[i] = f.flags[j] \/ HasPrefix(a[i], f.flags[j] \o <<"=">>)}

\* the tokens of the vector that do not start with "-", in order
RECURSIVE PositionalTokens(_, _)
PositionalTokens(a, i) ==
    IF i > Len(a) THEN <<>>
    ELSE (IF a[i] = <<>> \/ a[i][1] # "-" THEN <<a[i]>> ELSE <<>>) \o PositionalTokens(a, i + 1)

\* the call returned (1, a Usage) without invoking cmd.Func
AnyUsageReturned == pc = "done" /\ calls = <<>> /\ ret.code = 1 /\ ret.err.kind = "Usage"

\* the one token of the vector that names the boolean option is tok
BoolGivenOnce(toks) ==
    /\ Cardinality(FlagTokens(args, cmd.Func.fields[1])) = 1
    /\ \E i \in FlagTokens(args, cmd.Func.fields[1]) : args[i] \in toks

\* the callable was invoked with the boolean bound to b and the positional tokens,
\* all of them, in its rest parameter
BoolBound(b) ==
    /\ Invoked
    /\ calls[1].config[1] = b
    /\ calls[1].params = <<PositionalTokens(args, 1)>>

\* the option given once: the bare flag and =true bind true, =false binds false, any
\* other =value is a Usage; no token but the flag's own is taken from the vector
C4_GivenOnce ==
    pc # "ready" =>
        /\ BoolGivenOnce({f_, flag_, Eq(f_, True), Eq(flag_, True)}) => BoolBound(TRUE)
        /\ BoolGivenOnce({Eq(f_, False), Eq(flag_, False)}) => BoolBound(FALSE)
        /\ BoolGivenOnce({Eq(f_, <<"1">>), Eq(flag_, <<>>)}) => AnyUsageReturned

(***************************************************************************)
(* C4.  For a boolean option given once on the command line through its    *)
(* canonical name or an alias: the bare flag and =true bind true, =false   *)
(* binds false, any other =value yields a Usage; a bare boolean flag never *)
(* consumes the following token, which stays a positional value.  Omitting *)
(* the option binds false when the environment snapshot defines none of    *)
(* its candidate names and it has no default.                              *)
(***************************************************************************)
C4_Boolean ==
    /\ C4_GivenOnce
    /\ (/\ pc # "ready"
        /\ FlagTokens(args, cmd.Func.fields[1]) = {}
        /\ EnvPresent(cmd.Func.fields[1], env) = {}
        /\ ~HasDefault(cmd.Func.fields[1])) => BoolBound(FALSE)

\* the bare alias binds true and the token "false" after it stays positional,
\* while the environment says FLAG=false
C4_Witness ==
    /\ BoolBound(TRUE)
    /\ args = <<f_, False>>
    /\ env = <<Eq(FLAG, False)>>
    /\ calls[1].params = << <<False>> >>

\* C4 as stated: omission binds false
C4_AsStated ==
    /\ C4_GivenOnce
    /\ (pc # "ready" /\ FlagTokens(args, cmd.Func.fields[1]) = {}) => BoolBound(FALSE)

(***************************************************************************)
(* SpecScalar: an optional scalar option on                                *)
(*   func(config struct { Flag string `flag:"-f,--flag" default:"-"` })    *)
(*   func(config struct { Flag int    `flag:"-f,--flag" default:"-"` })    *)
(***************************************************************************)
scalarConfig(typ) == << Field(typ, <<f_, flag_>>, <<FLAG>>, <<"-">>) >>

ScalarCommands ==
    {CommandFunc(Fn(<<"struct">>, scalarConfig(typ), FALSE, <<>>), <<>>, NilMap) :
        typ \in {"string", "int"}}

\* the values given to the option: a number, the empty string, a negative number
ScalarValues == {<<"1">>, <<>>, <<"-","1">>}

ScalarTokens ==
    {f_, flag_} \cup ScalarValues
        \cup {Eq(f_, V) : V \in ScalarValues} \cup {Eq(flag_, V) : V \in ScalarValues}

InitScalar == InitWith(ScalarCommands, {"nil"}, ScalarTokens, {<<>>, <<Eq(FLAG, <<"7">>)>>})

SpecScalar == InitScalar /\ [][Next]_vars

\* -f=V, -f V, --flag=V and --flag V
Spellings(V) == {<<Eq(f_, V)>>, <<f_, V>>, <<Eq(flag_, V)>>, <<flag_, V>>}

\* the value is more than one character long and starts with "-"
LooksLikeOption(V) == Len(V) > 1 /\ V[1] = "-"

\* the call returned (0, nil) after invoking cmd.Func with the one field bound to v
ScalarBound(v) == Invoked /\ calls[1].config = <<v>> /\ ret = [code |-> 0, err |-> NoError]

\* the outcome of giving V to the option: V decoded and bound, or, when V does not
\* decode, a Usage about the canonical flag
GivenOutcome(V) ==
    IF decodeFunc(cmd.Func.fields[1].typ, <<V>>).err = NoError
    THEN ScalarBound(decodeFunc(cmd.Func.fields[1].typ, <<V>>).v)
    ELSE AnyUsageReturned /\ ret.err.msg = "decoding" /\ ret.err.name = flag_

\* each spelling of each value of Vs parses to the value V for --flag alone, and
\* has the outcome of giving V
SpellingsAgree(Vs) ==
    \A V \in Vs :
        (pc # "ready" /\ args \in Spellings(V)) =>
            /\ parseCommandLine(cmd.parser, args)
                 = ParseResult(flag_ :> <<V>>, <<>>, <<>>, NoError)
            /\ GivenOutcome(V)

(***************************************************************************)
(* C5.  For an optional scalar option (default "-") with alias -f and      *)
(* canonical name --flag, and for any value V that does not look like an   *)
(* option (V is at most one character long or does not start with "-"),   *)
(* the four spellings -f=V, -f V, --flag=V and --flag V produce the same   *)
(* parse result and the same bound value.  Omitting the option binds the   *)
(* zero value without error when the environment snapshot defines none of  *)
(* its candidate names.                                                    *)
(***************************************************************************)
C5_Spellings ==
    /\ SpellingsAgree({V \in ScalarValues : ~LooksLikeOption(V)})
    /\ (pc # "ready" /\ args = <<>> /\ EnvPresent(cmd.Func.fields[1], env) = {})
          => ScalarBound(Zero(cmd.Func.fields[1].typ))

\* -f 1 binds the integer 1 while the environment says FLAG=7
C5_Witness ==
    /\ cmd.Func.fields[1].typ = "int"
    /\ args = <<f_, <<"1">>>>
    /\ env = <<Eq(FLAG, <<"7">>)>>
    /\ ScalarBound(1)

\* C5 as stated: any value V, and omission binds the zero value
C5_AsStated ==
    /\ SpellingsAgree(ScalarValues)
    /\ (pc # "ready" /\ args = <<>>) => ScalarBound(Zero(cmd.Func.fields[1].typ))

(***************************************************************************)
(* SpecSlice: a slice option on                                            *)
(*   func(config struct { Input []string `flag:"-i,--input"` })            *)
(*   func(config struct { Input []int    `flag:"-i,--input"` })            *)
(***************************************************************************)
i_ == <<"-","i">>
input_ == <<"-","-","i","n","p","u","t">>

sliceConfig(typ) == << Field(typ, <<i_, input_>>, <<INPUT>>, <<>>) >>

SliceCommands ==
    {CommandFunc(Fn(<<"struct">>, sliceConfig(typ), FALSE, <<>>), <<>>, NilMap) :
        typ \in {"[]string", "[]int"}}

SliceTokens == {i_, input_, Eq(i_, <<"1">>), Eq(input_, <<"2">>), <<"3">>}

InitSlice ==
    InitWith(SliceCommands, {"nil"}, SliceTokens,
             {<<>>, <<Eq(INPUT, <<"9">>)>>, <<Eq(INPUT, <<"x">>)>>})

SpecSlice == InitSlice /\ [][Next]_vars

\* the vector a[i..] read as occurrences of the option of field f and nothing else:
\* flag=value, or flag and then a value; [ok, v], v the values in order
RECURSIVE Occurrences(_, _, _)
Occurrence(x, r) == [ok |-> r.ok, v |-> <<x>> \o r.v]

Occurrences(a, f, i) ==
    IF i > Len(a) THEN [ok |-> TRUE, v |-> <<>>]
    ELSE IF \E j \in 1..Len(f.flags) : HasPrefix(a[i], f.flags[j] \o <<"=">>)
    THEN Occurrence(SubSeq(a[i], IndexByte(a[i], "=") + 1, Len(a[i])), Occurrences(a, f, i + 1))
    ELSE IF /\ \E j \in 1..Len(f.flags) : a[i] = f.flags[j]
            /\ i < Len(a)
            /\ ~LooksLikeOption(a[i + 1])
    THEN Occurrence(a[i + 1], Occurrences(a, f, i + 2))
    ELSE [ok |-> FALSE, v |-> <<>>]

\* the call returned (0, nil) after invoking cmd.Func with the list bound to the
\* decoding of the values vs, in order
SliceBound(vs) ==
    /\ Invoked
    /\ ret = [code |-> 0, err |-> NoError]
    /\ calls[1].config[1]
         = [k \in 1..Len(vs) |-> decodeFunc(Elem(cmd.Func.fields[1].typ), <<vs[k]>>).v]

\* the option given N >= 0 times, and nothing else on the command line: an
\* N-element list of the values in command-line order, when `omitted` allows N = 0
SliceGiven(omitted) ==
    (/\ pc # "ready"
     /\ Occurrences(args, cmd.Func.fields[1], 1).ok
     /\ args = <<>> => omitted)
        => SliceBound(Occurrences(args, cmd.Func.fields[1], 1).v)

(***************************************************************************)
(* C6.  For a slice-typed option, giving it N times on the command line    *)
(* through any mix of its aliases and canonical name binds an N-element    *)
(* list whose elements are the decoded values in command-line order.       *)
(* Omitting it binds an empty list without error when the environment      *)
(* snapshot defines none of its candidate names and it has no default.     *)
(***************************************************************************)
C6_Slice ==
    SliceGiven(EnvPresent(cmd.Func.fields[1], env) = {} /\ ~HasDefault(cmd.Func.fields[1]))

\* the alias with =, then the canonical name with its value in the next token:
\* the integers 1 and 3 in command-line order, while the environment says INPUT=x
C6_Witness ==
    /\ cmd.Func.fields[1].typ = "[]int"
    /\ args = <<Eq(i_, <<"1">>), input_, <<"3">>>>
    /\ env = <<Eq(INPUT, <<"x">>)>>
    /\ Invoked
    /\ calls[1].config = << <<1, 3>> >>

\* C6 as stated: omission binds an empty list and is never an error
C6_AsStated == SliceGiven(TRUE)

(***************************************************************************)
(* SpecPositional: positional parameters, the "--" separator and results,  *)
(* with `type config struct{}`, on                                         *)
(*   func(config config, x, y int)                                         *)
(*   func(config config, paths []string) error                             *)
(*   func(config config, s string, rest []int) (int, error)                *)
(*   func(config config, sub ...string)                                    *)
(*   func(ctx context.Context, config config, s string, sub ...string) error *)
(*   func()                                                                *)
(***************************************************************************)
PositionalCommands ==
    {CommandFunc(fn, <<>>, NilMap) :
        fn \in {Fn(<<"struct", "int", "int">>, <<>>, FALSE, <<>>),
                Fn(<<"struct", "[]string">>, <<>>, FALSE, <<"error">>),
                Fn(<<"struct", "string", "[]int">>, <<>>, FALSE, <<"int", "error">>),
                Fn(<<"struct", "[]string">>, <<>>, TRUE, <<>>),
                Fn(<<"context.Context", "struct", "string", "[]string">>, <<>>, TRUE,
                   <<"error">>),
                Fn(<<>>, <<>>, FALSE, <<>>)}}

PositionalArgs == {<<"1","0">>, <<"4","2">>, <<"a">>, <<>>, <<"-","-">>}

InitPositional == InitWith(PositionalCommands, {"nil"}, PositionalArgs, {<<>>})

SpecPositional == InitPositional /\ [][Next]_vars

\* the index of the first "--" of the vector, or one past its end
SepIndex(a) ==
    IF \E i \in 1..Len(a) : a[i] = <<"-","-">>
    THEN Min({i \in 1..Len(a) : a[i] = <<"-","-">>})
    ELSE Len(a) + 1

\* the positional values: the tokens before the first "--" that are no options
PosValues == PositionalTokens(SubSeq(args, 1, SepIndex(args) - 1), 1)

\* the trailing command: the tokens after the first "--"
Trailing == SubSeq(args, SepIndex(args) + 1, Len(args))

\* the types of the positional parameters of cmd.Func: those after the context and
\* the struct, and before the variadic parameter
PosTypes ==
    SubSeq(cmd.Func.in,
           Cardinality({i \in 1..Len(cmd.Func.in) :
                           cmd.Func.in[i] \in {"context.Context", "struct"}}) + 1,
           IF cmd.Func.variadic THEN Len(cmd.Func.in) - 1 ELSE Len(cmd.Func.in))

\* the non-slice positional parameters
NonSlice == {i \in 1..Len(PosTypes) : ~IsSliceType(PosTypes[i])}

\* the elements of vs from index i on, each decoded as a t
DecodedFrom(t, vs, i) ==
    [k \in 1..(IF Len(vs) < i THEN 0 ELSE Len(vs) - i + 1) |->
        decodeFunc(t, <<vs[i + k - 1]>>).v]

\* every positional parameter can be bound and no value is left: value i decodes
\* as parameter i (the empty string when there is no value i), the values from a
\* slice parameter on decode as its elements
PositionalsBind ==
    /\ \A i \in NonSlice :
          decodeFunc(PosTypes[i], <<IF i <= Len(PosValues) THEN PosValues[i] ELSE <<>>>>).err
             = NoError
    /\ \A i \in 1..Len(PosTypes) \ NonSlice : \A k \in i..Len(PosValues) :
          decodeFunc(Elem(PosTypes[i]), <<PosValues[k]>>).err = NoError
    /\ NonSlice = 1..Len(PosTypes) => Len(PosValues) <= Len(PosTypes)

(***************************************************************************)
(* C7.  When the argument vector supplies fewer positional values than the *)
(* callable has non-slice positional parameters, Call returns (1, a Usage) *)
(* and the callable is not invoked, whatever the types of the positional   *)
(* parameters.                                                             *)
(***************************************************************************)
C7_TooFew ==
    (pc # "ready" /\ Len(PosValues) < Cardinality(NonSlice)) => AnyUsageReturned

(***************************************************************************)
(* C8.  Positional values are bound to the positional parameters in order  *)
(* of appearance: when the callable is invoked, value i is parameter i, a  *)
(* final slice parameter holds all the values from its position on, in     *)
(* order and possibly none; and when values remain after every parameter   *)
(* is bound, Call returns (1, a Usage "too many positional arguments") and *)
(* the callable is not invoked.                                            *)
(***************************************************************************)
C8_InOrder ==
    /\ Invoked =>
          /\ Len(calls[1].params) = Len(PosTypes)
          /\ \A i \in NonSlice : i <= Len(PosValues) =>
                calls[1].params[i] = decodeFunc(PosTypes[i], <<PosValues[i]>>).v
          /\ \A i \in 1..Len(PosTypes) \ NonSlice :
                calls[1].params[i] = DecodedFrom(Elem(PosTypes[i]), PosValues, i)
    /\ (/\ pc # "ready"
        /\ NonSlice = 1..Len(PosTypes)
        /\ Len(PosValues) > Len(PosTypes)
        /\ \A i \in NonSlice : decodeFunc(PosTypes[i], <<PosValues[i]>>).err = NoError)
          => UsageReturned("too many positional arguments")

\* func(config, s string, rest []int) with "a", "10", "42"
C8_Witness ==
    /\ cmd.Func.in = <<"struct", "string", "[]int">>
    /\ args = << <<"a">>, <<"1","0">>, <<"4","2">> >>
    /\ Invoked
    /\ calls[1].params = << <<"a">>, <<10, 42>> >>

\* the outcome of the separator checks: a variadic callable is invoked with exactly
\* the tokens after the first "--", unless there are none; a non-variadic callable
\* is refused a trailing command
SeparatorOutcome ==
    /\ (cmd.Func.variadic /\ Trailing # <<>>) =>
          Invoked /\ calls[1].command = Trailing
    /\ (cmd.Func.variadic /\ Trailing = <<>>) =>
          UsageReturned("missing command after separator")
    /\ (~cmd.Func.variadic /\ Trailing # <<>>) =>
          UsageReturned("unsupported command after separator")

SameError(e, r) ==
    e.kind = r.kind /\ e.msg = r.msg /\ e.name = r.name /\ e.cause = r.cause

(***************************************************************************)
(* C10.  When the callable is invoked, Call maps its result: no return     *)
(* value gives (0, nil); a single error gives the code 1 if and only if    *)
(* the error is non-nil, and 0 otherwise; a (code, error) pair gives that  *)
(* code and that error, whatever the combination.                          *)
(***************************************************************************)
C10_ResultMapping ==
    Invoked =>
        /\ Len(calls[1].result) = Len(cmd.Func.out)
        /\ Len(calls[1].result) = 0 => ret = [code |-> 0, err |-> NoError]
        /\ Len(calls[1].result) = 1 =>
              /\ ret.code = (IF calls[1].result[1] # NoError THEN 1 ELSE 0)
              /\ SameError(ret.err, calls[1].result[1])
        /\ Len(calls[1].result) = 2 =>
              /\ ret.code = calls[1].result[1]
              /\ SameError(ret.err, calls[1].result[2])

\* the callable returned the code 0 with an error: Call returns both
C10_Witness ==
    /\ Invoked
    /\ calls[1].result = <<0, BareErr("failed", <<>>)>>
    /\ ret = [code |-> 0, err |-> BareErr("failed", <<>>)]

(***************************************************************************)
(* command.go: CommandSet and namedCommand.  A CommandSet is a record      *)
(* whose field cmds is the map from the registered keys to the children;   *)
(* a call on a Function gives the set of its outcomes, each with the node  *)
(* as the call leaves it, the calls the sets made on their children        *)
(* (routed) and the caller's argument array as the call leaves it (args).  *)
(***************************************************************************)
CommandSet(cmds) == [cmds |-> cmds]

\* the type switch on a Function: a CommandSet or a *CommandFunc
IsSet(node) == "cmds" \in DOMAIN node

\* the command set itself, as a Function value
SetSelf == [names |-> <<>>, base |-> "CommandSet"]

FunctionOf(node) == IF IsSet(node) THEN SetSelf ELSE Self

\* the key of the entry that describes the set
Underscore == <<"_">>

\* NamedCommand putting the name inside the decorators there are
NamedCommand_inside(name, c) == [c EXCEPT !.names = @ \o <<name>>]

\* NamedCommand(name, cmd), on the value a signal carries
NamedCommand(name, c) == [c EXCEPT !.names = <<name>> \o @]

\* parseHelpNamed leaving a help option of value false in the vector
parseHelpNamed_keepsToken(a, nv) ==
    IF nv.name \in {<<"-","h">>, <<"-","-","h","e","l","p">>}
    THEN [wantHelp |-> IF nv.hasValue THEN nv.value = <<"t","r","u","e">> ELSE TRUE,
          next |-> a]
    ELSE [wantHelp |-> FALSE, next |-> a]

\* parseHelp, lines 813-828: nv is the first token split
parseHelpNamed(a, nv) ==
    IF nv.name \in {<<"-","h">>, <<"-","-","h","e","l","p">>}
    THEN [wantHelp |-> IF nv.hasValue THEN nv.value = <<"t","r","u","e">> ELSE TRUE,
          next |-> SubSeq(a, 2, Len(a))]
    ELSE [wantHelp |-> FALSE, next |-> a]

parseHelp(a) ==
    IF Len(a) = 0 THEN [wantHelp |-> FALSE, next |-> <<>>]
    ELSE parseHelpNamed(a, splitNameValue(a[1]))

\* nameIndex without the break of lines 601-603 at the command separator
RECURSIVE nameIndex_pastSeparator(_, _)
nameIndex_pastSeparator(a, i) ==
    IF i > Len(a) THEN 0
    ELSE IF isOption(a[i]) THEN nameIndex_pastSeparator(a, i + 1)
    ELSE i

\* Call, lines 600-613: the index of the token the loop takes as the command name,
\* 0 when the loop breaks at "--" or ends
RECURSIVE nameIndex(_, _)
nameIndex(a, i) ==
    IF i > Len(a) THEN 0
    ELSE IF isCommandSeparator(a[i]) THEN 0
    ELSE IF isOption(a[i]) THEN nameIndex(a, i + 1)
    ELSE i

\* the removal of token i done by append(args[:i], args[i+1:]...), which writes
\* into the array of the caller
removeName_inPlace(a, i) ==
    IF i = 0 THEN [args |-> a, array |-> a]
    ELSE [args |-> SubSeq(a, 1, i - 1) \o SubSeq(a, i + 1, Len(a)),
          array |-> SubSeq(a, 1, i - 1) \o SubSeq(a, i + 1, Len(a)) \o <<a[Len(a)]>>]

\* Call, lines 608-611: the vector without token i, built in a new array; array is
\* the array of the caller after it
removeName(a, i) ==
    IF i = 0 THEN [args |-> a, array |-> a]
    ELSE [args |-> SubSeq(a, 1, i - 1) \o SubSeq(a, i + 1, Len(a)), array |-> a]

\* the least of three numbers
min3(x, y, z) == IF x <= y /\ x <= z THEN x ELSE IF y <= z THEN y ELSE z

\* one row of the distance table: prev is the row of the previous character of s,
\* cur the entries of this row for the first j - 1 characters of t
RECURSIVE levenshteinRow(_, _, _, _, _)
levenshteinRow(prev, c, t, j, cur) ==
    IF j > Len(t) THEN cur
    ELSE levenshteinRow(prev, c, t, j + 1,
             Append(cur, min3(prev[j + 1] + 1, cur[j] + 1,
                              prev[j] + (IF c = t[j] THEN 0 ELSE 1))))

RECURSIVE levenshteinRows(_, _, _, _)
levenshteinRows(s, t, i, prev) ==
    IF i > Len(s) THEN prev[Len(t) + 1]
    ELSE levenshteinRows(s, t, i + 1, levenshteinRow(prev, s[i], t, 1, <<i>>))

\* the edit distance of two strings: the least number of insertions, deletions and
\* substitutions of one character that turn s into t
levenshtein(s, t) == levenshteinRows(s, t, 1, [k \in 1..(Len(t) + 1) |-> k - 1])

\* similarEnough without the test of lines 646-648 on names of one character
similarEnough_anyLength(input, want, lev) ==
    IF Len(input) <= 3 \/ Len(want) <= 3 THEN lev <= 1
    ELSE 10 * lev <= 3 * Len(want)

\* similarEnough, lines 645-655; lev / len(want) <= 0.3 in integers
similarEnough(input, want, lev) ==
    IF Len(input) <= 1 \/ Len(want) <= 1 THEN FALSE
    ELSE IF Len(input) <= 3 \/ Len(want) <= 3 THEN lev <= 1
    ELSE 10 * lev <= 3 * Len(want)

\* Call, lines 620-628: the closest key and its score. The loop keeps the first key
\* of minimal score, and the order of the map can put any of them first.
closestCommands(a, keys) ==
    IF keys = {} THEN {[key |-> <<>>, score |-> 1000]}
    ELSE {[key |-> k, score |-> levenshtein(a, k)] :
            k \in {k \in keys : \A j \in keys : levenshtein(a, k) <= levenshtein(a, j)}}

\* a return of the set's Call before any child is called
SetReturned(s, array, code, err) ==
    [cmd |-> s, pc |-> "done", code |-> code, err |-> err, call |-> <<>>,
     routed |-> <<>>, args |-> array]

\* Call, lines 629-635, for the closest key c
unknownCommand(s, array, a, c) ==
    IF similarEnough(a, c.key, c.score)
    THEN SetReturned(s, array, 1,
             [BareErr("unknown command, did you mean", a) EXCEPT !.closest = c.key])
    ELSE SetReturned(s, array, 1, UsageErr(SetSelf, "unknown command", a))

\* namedCommand.Call, lines 740-753: the node a Help or a Usage carries
annotate(name, child, err) ==
    IF err.kind \in {"Help", "Usage"}
    THEN [err EXCEPT !.Cmd = IF @ = NilCmd THEN NamedCommand(name, FunctionOf(child))
                                ELSE NamedCommand(name, @)]
    ELSE err

RECURSIVE FunctionCall(_, _, _, _)

\* Call, line 638: NamedCommand(a, c).Call(ctx, args, env) on the child of key a
namedCommandCall(s, a, cx, childArgs, e, array) ==
    {[cmd |-> [s EXCEPT !.cmds[a] = o.cmd], pc |-> o.pc, code |-> o.code,
      err |-> annotate(a, s.cmds[a], o.err), call |-> o.call,
      routed |-> <<[name |-> a, args |-> childArgs]>> \o o.routed, args |-> array] :
        o \in FunctionCall(s.cmds[a], cx, childArgs, e)}

\* Call, lines 615-638: a is the command name, "" when the loop found none
setDispatch(s, cx, e, a, rm, array) ==
    IF a = <<>>
    THEN {SetReturned(s, array, 1, UsageErr(SetSelf, "missing command", <<>>))}
    ELSE IF a \notin DOMAIN s.cmds
    THEN {unknownCommand(s, array, a, c) : c \in closestCommands(a, DOMAIN s.cmds)}
    ELSE namedCommandCall(s, a, cx, rm.args, e, array)

\* Call, lines 600-613: i is the index of the command name in the vector `next`
setScan(s, cx, e, skipped, next, i, rm) ==
    setDispatch(s, cx, e, IF i = 0 THEN <<>> ELSE next[i], rm, skipped \o rm.array)

\* Call, lines 593-598: h is the result of parseHelp
setHelp(s, cx, a, e, h) ==
    IF h.wantHelp THEN {SetReturned(s, a, 0, HelpErr(SetSelf))}
    ELSE setScan(s, cx, e, SubSeq(a, 1, Len(a) - Len(h.next)), h.next,
                 nameIndex(h.next, 1), removeName(h.next, nameIndex(h.next, 1)))

\* the set with the children of the keys ks configured
configured(s, confs, ks) ==
    [s EXCEPT !.cmds = [k \in DOMAIN s.cmds |->
                           IF k \in ks THEN confs[k].cmd ELSE s.cmds[k]]]

\* Call, lines 579-585: confs[k] is the result of configure on the child of key k.
\* A configure that panics ends the loop with any of the other children configured.
setConfigured(s, cx, a, e, confs) ==
    IF \E k \in DOMAIN confs : confs[k].panic
    THEN {[SetReturned(configured(s, confs, ks), a, 0, NoError) EXCEPT !.pc = "panic"] :
            ks \in SUBSET {k \in DOMAIN confs : ~confs[k].panic}}
    ELSE setHelp(configured(s, confs, DOMAIN confs), cx, a, e, parseHelp(a))

\* CommandSet.Call(ctx, args, env), lines 578-639: the children with a configure
\* method are the *CommandFunc ones, and the key "_" is skipped
setCall(s, cx, a, e) ==
    setConfigured(s, cx, a, e,
        [k \in {k \in DOMAIN s.cmds : k # Underscore /\ ~IsSet(s.cmds[k])} |->
            configure(s.cmds[k])])

\* Function.Call(ctx, args, env) on a node
FunctionCall(node, cx, a, e) ==
    IF IsSet(node) THEN setCall(node, cx, a, e)
    ELSE {[cmd |-> o.cmd, pc |-> o.pc, code |-> o.code, err |-> o.err, call |-> o.call,
           routed |-> <<>>, args |-> a] : o \in CallResults(node, cx, a, e)}

(***************************************************************************)
(* command.go: Format.  The text written is modelled by its parts: the     *)
(* words of a usage synopsis, the rows of a listing.                       *)
(***************************************************************************)
\* the bytes the strings of the model are made of, in increasing order
Alphabet ==
    <<"-", "0", "1", "2", "3", "4", "5", "6", "7", "8", "9", "=",
      "A", "B", "C", "D", "E", "F", "G", "H", "I", "J", "K", "L", "M",
      "N", "O", "P", "Q", "R", "S", "T", "U", "V", "W", "X", "Y", "Z", "_",
      "a", "b", "c", "d", "e", "f", "g", "h", "i", "j", "k", "l", "m",
      "n", "o", "p", "q", "r", "s", "t", "u", "v", "w", "x", "y", "z">>

Ord(c) == CHOOSE i \in 1..Len(Alphabet) : Alphabet[i] = c

\* s < t as Go compares strings
stringLess(s, t) ==
    \E i \in 1..Len(t) :
        /\ i <= Len(s) + 1
        /\ \A j \in 1..(i - 1) : s[j] = t[j]
        /\ i = Len(s) + 1 \/ Ord(s[i]) < Ord(t[i])

\* sortedMapKeys: the keys in increasing order; least is the least of them
RECURSIVE sortedMapKeys(_)
sortedFrom(keys, least) == <<least>> \o sortedMapKeys(keys \ {least})

sortedMapKeys(keys) ==
    IF keys = {} THEN <<>>
    ELSE sortedFrom(keys, CHOOSE k \in keys : \A j \in keys : j = k \/ stringLess(k, j))

\* CommandSet.Format, verb v, lines 692-707: the keys of the rows under "Commands:",
\* from the i-th sorted key on
RECURSIVE commandRows(_, _)
commandRows(names, i) ==
    IF i > Len(names) THEN <<>>
    ELSE IF names[i] = Underscore THEN commandRows(names, i + 1)
    ELSE <<names[i]>> \o commandRows(names, i + 1)

commandListing(s) == commandRows(sortedMapKeys(DOMAIN s.cmds), 1)

\* typeNameOf, decode.go lines 551-563, in parts: the name and the "..." of a slice
typeNameOf(t) ==
    IF t = "bool" THEN <<>>
    ELSE IF IsSliceType(t) THEN <<Elem(t), "...">>
    ELSE <<t>>

\* CommandFunc.Format, verb s, lines 409-418: the words of the parameters i..n-1
\* (0-based, as t.In), up to the first slice
RECURSIVE usageParams(_, _, _)
usageParams(in, i, n) ==
    IF i >= n THEN <<>>
    ELSE IF IsSliceType(in[i + 1]) THEN << <<"[">> \o typeNameOf(in[i + 1]) \o <<"]">> >>
    ELSE << <<"[">> \o typeNameOf(in[i + 1]) \o <<"]">> >> \o usageParams(in, i + 1, n)

\* CommandFunc.Format, verb s, lines 391-422, for a command without a Usage text:
\* the words of the synopsis
funcUsage(c) ==
    << <<"[options]">> >>
        \o usageParams(c.Func.in, IF c.context THEN 2 ELSE 1,
                       IF c.variadic THEN Len(c.Func.in) - 1 ELSE Len(c.Func.in))
        \o (IF c.variadic THEN << <<"--">>, <<"[command]">> >> ELSE <<>>)

\* CommandSet.Format, verb s, line 670
setUsage == << <<"[command]">>, <<"[-h]">>, <<"[--help]">>, <<"...">> >>

isLongFlag(s) == HasPrefix(s, <<"-","-">>)

isShortFlag(s) == ~isLongFlag(s)

\* CommandFunc.Format, verb v, lines 454-459 and 483-487: the width the short
\* flags among flags[i..] take, each with its separator
RECURSIVE shortWidth(_, _)
shortWidth(flags, i) ==
    IF i > Len(flags) THEN 0
    ELSE (IF isShortFlag(flags[i]) THEN Len(flags[i]) + 2 ELSE 0) + shortWidth(flags, i + 1)

\* the greatest of a set of widths, 0 when there is none
maxWidth(S) == IF S = {} THEN 0 ELSE CHOOSE x \in S : \A y \in S : y <= x

\* shortLen without the test of lines 451-453: the hidden fields count too
shortLen_withHidden(options) ==
    maxWidth({shortWidth(options[k].flags, 1) : k \in DOMAIN options})

\* CommandFunc.Format, verb v, lines 448-463
shortLen(options) ==
    maxWidth({shortWidth(options[k].flags, 1) : k \in {j \in DOMAIN options : ~options[j].hidden}})

\* the flags among flags[i..] that are long (long = TRUE) or short, in their order
RECURSIVE flagsOf(_, _, _)
flagsOf(flags, i, long) ==
    IF i > Len(flags) THEN <<>>
    ELSE (IF isLongFlag(flags[i]) = long THEN <<flags[i]>> ELSE <<>>)
         \o flagsOf(flags, i + 1, long)

\* CommandFunc.Format, verb v, lines 474-518: the row of one option, in parts (the
\* help text of the field is left out); n is the width of its short flags
optionRow(name, field, n, width) ==
    [name |-> name, short |-> flagsOf(field.flags, 1, FALSE),
     pad |-> IF n < width THEN width - n ELSE 0,
     long |-> flagsOf(field.flags, 1, TRUE), argtyp |-> typeNameOf(field.typ),
     defval |-> IF field.defval \notin {<<>>, <<"-">>} THEN field.defval ELSE <<>>]

\* CommandFunc.Format, verb v, lines 468-519: the rows under "Options:", from the
\* i-th sorted key on
RECURSIVE optionRowsFrom(_, _, _, _)
optionRowsFrom(options, names, i, width) ==
    IF i > Len(names) THEN <<>>
    ELSE IF options[names[i]].hidden THEN optionRowsFrom(options, names, i + 1, width)
    ELSE <<optionRow(names[i], options[names[i]],
                     shortWidth(options[names[i]].flags, 1), width)>>
         \o optionRowsFrom(options, names, i + 1, width)

optionRows(c) ==
    optionRowsFrom(c.options, sortedMapKeys(DOMAIN c.options), 1, shortLen(c.options))

\* Format, verb s, of the node c carries in the tree of root: namedCommand.Format,
\* lines 757-770, writes its name and lets the node it decorates go on
RECURSIVE usage(_, _)
usage(names, node) ==
    IF Len(names) # 0 THEN <<names[1]>> \o usage(Tail(names), node.cmds[names[1]])
    ELSE IF IsSet(node) THEN setUsage
    ELSE funcUsage(node)

(***************************************************************************)
(* The calls on any node: Function.Call through the interface, and the     *)
(* top-level CallContext of cli.go.                                        *)
(***************************************************************************)
CallFunction ==
    /\ pc = "ready"
    /\ \E o \in FunctionCall(cmd, ctx, args, env) :
          /\ cmd' = o.cmd
          /\ args' = o.args
          /\ pc' = o.pc
          /\ ret' = [code |-> o.code, err |-> o.err]
          /\ calls' = calls \o o.call
          /\ routed' = routed \o o.routed
    /\ UNCHANGED <<ctx, env, exit, Err, structType, got>>

NextFunction == CallFunction

\* CallContext, lines 488-500: the status returned for the (code, err) of cmd.Call
exitCode(code, err) == IF err.kind = "error" THEN 1 ELSE code

\* CallContext(ctx, cmd, args...), lines 480-501, on a node without a name: the
\* prefix is empty and environ gives the whole environment
CallContext ==
    /\ pc = "ready"
    /\ \E o \in FunctionCall(cmd, ctx, args, env) :
          /\ cmd' = o.cmd
          /\ args' = o.args
          /\ pc' = o.pc
          /\ ret' = [code |-> o.code, err |-> o.err]
          /\ calls' = calls \o o.call
          /\ routed' = routed \o o.routed
          /\ exit' = IF o.pc = "panic" THEN exit ELSE exitCode(o.code, o.err)
          /\ Err' = IF o.pc = "panic" \/ o.err = NoError THEN Err ELSE Err \o <<o.err>>
    /\ UNCHANGED <<ctx, env, structType, got>>

NextContext == CallContext

(***************************************************************************)
(* The exit status: cli.Call on leaf commands of every result signature    *)
(* and on a set of them.                                                   *)
(*   func(config config)                                                   *)
(*   func(config config) error                                             *)
(*   func(config config, n int) (int, error)                               *)
(*   cli.CommandSet{"run": func(config config) (int, error)}               *)
(***************************************************************************)
run_ == <<"r","u","n">>

ExitCommands ==
    {CommandFunc(Fn(<<"struct">>, <<>>, FALSE, <<>>), <<>>, NilMap),
     CommandFunc(Fn(<<"struct">>, <<>>, FALSE, <<"error">>), <<>>, NilMap),
     CommandFunc(Fn(<<"struct", "int">>, <<>>, FALSE, <<"int", "error">>), <<>>, NilMap),
     CommandSet([k \in {run_} |->
        CommandFunc(Fn(<<"struct">>, <<>>, FALSE, <<"int", "error">>), <<>>, NilMap)])}

ExitTokens == {<<"1","0">>, <<"a">>, run_, <<"-","-","h","e","l","p">>}

InitExit == InitWith(ExitCommands, {"TODO"}, ExitTokens, {<<>>})

SpecExit == InitExit /\ [][NextContext]_vars

\* the results cmd.Func gave in the call made
FuncResult == calls[Len(calls)].result

(***************************************************************************)
(* C11.  The status the top-level call returns is 0 for success and for    *)
(* help, 1 for a usage error and for an error of a function that gives no  *)
(* code, and the code of the function itself whenever the function returns *)
(* (code, error), also when the error it returns is not nil.               *)
(***************************************************************************)
C11_ExitStatus ==
    pc = "done" =>
        /\ Len(calls) = 0 /\ ret.err.kind \in {"nil", "Help"} => exit = 0
        /\ Len(calls) = 0 /\ ret.err.kind \in {"Usage", "error"} => exit = 1
        /\ Len(calls) = 1 /\ Len(FuncResult) = 0 => exit = 0
        /\ Len(calls) = 1 /\ Len(FuncResult) = 1 =>
              exit = IF FuncResult[1] = NoError THEN 0 ELSE 1
        /\ Len(calls) = 1 /\ Len(FuncResult) = 2 => exit = FuncResult[1]

(***************************************************************************)
(* Routing: calls on command sets with one child, without and with the     *)
(* "_" entry that describes the set, as a literal and as a command.        *)
(*   type config struct {                                                  *)
(*       String string `flag:"-f,--flag" default:"-"`                      *)
(*       Number int    `flag:"-n"        default:"-"`                      *)
(*   }                                                                     *)
(*   cli.CommandSet{"sub": cli.Command(func(config config) error)}         *)
(*   cli.CommandSet{"_": &cli.CommandFunc{Help: "..."}, "sub": ...}        *)
(*   cli.CommandSet{"_": cli.Command(func() {}), "sub": ...}               *)
(***************************************************************************)
sub_ == <<"s","u","b">>
n_ == <<"-","n">>

routeConfig ==
    << Field("string", <<f_, flag_>>, <<>>, <<"-">>), Field("int", <<n_>>, <<>>, <<"-">>) >>

\* the reflected type of a nil Func
NilFunc == [nil |-> TRUE, in |-> <<>>, fields |-> <<>>, variadic |-> FALSE, out |-> <<>>]

RouteCommands ==
    {CommandSet([k \in {sub_} |->
        CommandFunc(Fn(<<"struct">>, routeConfig, FALSE, <<"error">>), <<>>, NilMap)]),
     CommandSet([k \in {Underscore, sub_} |->
        IF k = Underscore THEN CommandFunc(NilFunc, <<>>, NilMap)
        ELSE CommandFunc(Fn(<<"struct">>, routeConfig, FALSE, <<"error">>), <<>>, NilMap)]),
     CommandSet([k \in {Underscore, sub_} |->
        IF k = Underscore THEN CommandFunc(Fn(<<>>, <<>>, FALSE, <<>>), <<>>, NilMap)
        ELSE CommandFunc(Fn(<<"struct">>, routeConfig, FALSE, <<"error">>), <<>>, NilMap)])}

RouteTokens ==
    {sub_, Eq(f_, <<"x">>), Eq(n_, <<"1">>), HelpFlag, Eq(<<"-","h">>, False),
     <<"-","-">>, Underscore, <<>>}

InitRoute == InitWith(RouteCommands, {"nil"}, RouteTokens, {<<>>})

SpecRoute == InitRoute /\ [][NextFunction]_vars

\* an option token of the form name=value that is no help option
NameValueOption(tok) ==
    /\ isOption(tok)
    /\ IndexByte(tok, "=") # 0
    /\ SubSeq(tok, 1, IndexByte(tok, "=") - 1) \notin {<<"-","h">>, HelpFlag}

\* the vector a without its token i
Without(a, i) == SubSeq(a, 1, i - 1) \o SubSeq(a, i + 1, Len(a))

\* the pending call has the name `sub` as token i among name=value options
NameAt(i) ==
    /\ pc = "ready"
    /\ i \in 1..Len(args)
    /\ args[i] = sub_
    /\ \A j \in 1..Len(args) : j # i => NameValueOption(args[j])

(***************************************************************************)
(* C12.  On a set with the child `sub`, a vector of name=value option      *)
(* tokens, none a help option, with the token `sub` before, between or     *)
(* after them: the child is called once with the option tokens in their    *)
(* order and the name removed, so the record bound and the result are the  *)
(* ones the child gives on that vector, wherever the name stood; and the   *)
(* vector of the caller is left as it was.                                 *)
(***************************************************************************)
C12_NameAnywhere ==
    [][\A i \in 1..MaxArgs + 1 : NameAt(i) =>
          /\ args' = args
          /\ routed' = <<[name |-> sub_, args |-> Without(args, i)]>>
          /\ \E o \in CallResults(cmd.cmds[sub_], ctx, Without(args, i), env) :
                /\ calls' = o.call
                /\ pc' = o.pc
                /\ ret'.code = o.code
                /\ SameError(ret'.err, o.err)]_vars

\* the name stood between two options and the child was invoked with both bound
C12_Witness ==
    /\ Invoked
    /\ Len(args) = 3
    /\ args[2] = sub_
    /\ NameValueOption(args[1]) /\ NameValueOption(args[3])
    /\ routed = <<[name |-> sub_, args |-> <<args[1], args[3]>>]>>
    /\ calls[1].config = << <<"x">>, 1 >>

\* the index of the first token of t that is no option, when only options that are
\* not "--" come before it; 0 when there is none
FirstName(t) ==
    IF \E i \in 1..Len(t) :
          ~isOption(t[i]) /\ \A j \in 1..(i - 1) : isOption(t[j]) /\ t[j] # <<"-","-">>
    THEN Min({i \in 1..Len(t) :
                ~isOption(t[i]) /\ \A j \in 1..(i - 1) : isOption(t[j]) /\ t[j] # <<"-","-">>})
    ELSE 0

\* the set returned (1, a Usage with this message, carrying the set) and called no child
SetUsage(m) ==
    /\ pc = "done" /\ routed = <<>> /\ calls = <<>>
    /\ ret.code = 1 /\ ret.err.kind = "Usage" /\ ret.err.msg = m /\ ret.err.Cmd = SetSelf

\* the call routed on the tokens t: the first name of t is the command name, the
\* child of that key gets the other tokens of t, and no name is "missing command"
RoutedOn(t, i) ==
    IF i = 0 \/ (i # 0 /\ t[i] = <<>>) THEN SetUsage("missing command")
    ELSE IF t[i] \in DOMAIN cmd.cmds
    THEN routed = <<[name |-> t[i], args |-> Without(t, i)]>>
    ELSE routed = <<>> /\ calls = <<>> /\ pc = "done" /\ ret.code = 1

NoName == pc # "ready" /\ FirstName(args) = 0

(***************************************************************************)
(* C14.  A command set called with a vector in which no command name       *)
(* occurs before the first "--" (the empty vector, option tokens only, or  *)
(* "--" first), and whose first token does not ask for help, returns       *)
(* (1, a Usage "missing command" carrying the set) and calls no child: the *)
(* tokens after the "--" are never taken as the command name.              *)
(***************************************************************************)
C14_MissingCommand ==
    (NoName /\ ~(Len(args) > 0 /\ IsHelpToken(args[1]))) => SetUsage("missing command")

\* C14 as stated, for every vector without a command name before the first "--"
C14_AsStated == NoName => SetUsage("missing command")

\* an option, then "--", then a registered name: "missing command"
C14_Witness ==
    /\ args = <<Eq(f_, <<"x">>), <<"-","-">>, sub_>>
    /\ SetUsage("missing command")

(***************************************************************************)
(* Unknown names: sets of commands func(), called with names that are      *)
(* close to a key, far from every key, or as close to two keys.            *)
(*   cli.CommandSet{"tool": f}                                             *)
(*   cli.CommandSet{"_": &cli.CommandFunc{Help: "..."}, "ab": f}           *)
(*   cli.CommandSet{"abcdxx": f, "abcdefgh": f}                            *)
(*   cli.CommandSet{"abcdefg": f}                                          *)
(*   cli.CommandSet{}                                                      *)
(***************************************************************************)
tool_ == <<"t","o","o","l">>

SuggestKeys ==
    {{tool_}, {Underscore, <<"a","b">>},
     {<<"a","b","c","d","x","x">>, <<"a","b","c","d","e","f","g","h">>},
     {<<"a","b","c","d","e","f","g">>}, {}}

SuggestCommands ==
    {CommandSet([k \in keys |->
        IF k = Underscore THEN CommandFunc(NilFunc, <<>>, NilMap)
        ELSE CommandFunc(Fn(<<>>, <<>>, FALSE, <<>>), <<>>, NilMap)]) : keys \in SuggestKeys}

SuggestTokens ==
    {tool_, <<"t","o","o">>, <<"z","z">>, <<"t","o","o","l","s">>, <<"a">>, <<"a","x">>,
     <<"a","b","c","d","e","f">>, <<"b","b","c","d","f","g">>}

InitSuggest == InitWith(SuggestCommands, {"nil"}, SuggestTokens, {<<>>})

SpecSuggest == InitSuggest /\ [][NextFunction]_vars

\* the registered keys of minimal edit distance to the name a
Closest(a) ==
    {k \in DOMAIN cmd.cmds : \A j \in DOMAIN cmd.cmds : levenshtein(a, k) <= levenshtein(a, j)}

\* the key k is similar enough to the name a, at distance d
Similar(a, k, d) ==
    /\ Len(a) > 1 /\ Len(k) > 1
    /\ IF Len(a) <= 3 \/ Len(k) <= 3 THEN d <= 1 ELSE 10 * d <= 3 * Len(k)

\* the call on the unknown name a gave the outcome the closest key k stands for
UnknownOutcome(a) ==
    /\ pc = "done" /\ routed = <<>> /\ calls = <<>> /\ ret.code = 1
    /\ \/ /\ ret.err.kind = "error"
          /\ ret.err.name = a
          /\ ret.err.closest \in Closest(a)
          /\ Similar(a, ret.err.closest, levenshtein(a, ret.err.closest))
       \/ /\ ret.err.kind = "Usage"
          /\ ret.err.msg = "unknown command"
          /\ ret.err.name = a
          /\ ret.err.Cmd = SetSelf
          /\ \/ DOMAIN cmd.cmds = {}
             \/ \E k \in Closest(a) : ~Similar(a, k, levenshtein(a, k))

C16_Underscore ==
    Underscore \in DOMAIN cmd.cmds =>
        /\ \A i \in 1..Len(routed) : routed[i].name # Underscore
        /\ ~cmd.cmds[Underscore].function
        /\ \A i \in 1..Len(commandListing(cmd)) : commandListing(cmd)[i] # Underscore

(***************************************************************************)
(* C17.  Every Help and every Usage that the Call of a leaf command or of  *)
(* a command set returns, for any argument vector and whichever step made  *)
(* it, carries a node that is not nil.                                     *)
(***************************************************************************)
C17_NodeCarried ==
    (pc = "done" /\ ret.err.kind \in {"Help", "Usage"}) => ret.err.Cmd # NilCmd

(***************************************************************************)
(* Nested sets: signals made two names deep, one name deep and at the root.*)
(*   cli.CommandSet{"do": cli.CommandSet{                                  *)
(*       "this": cli.Command(func(config config) error),                   *)
(*       "that": cli.Command(func(ctx context.Context, config struct{},    *)
(*                                n int, sub ...string)),                  *)
(*   }}                                                                    *)
(*   cli.CommandSet{"this": cli.Command(func(config config) error)}        *)
(***************************************************************************)
do_ == <<"d","o">>
this_ == <<"t","h","i","s">>
that_ == <<"t","h","a","t">>

thisCommand == CommandFunc(Fn(<<"struct">>, routeConfig, FALSE, <<"error">>), <<>>, NilMap)

thatCommand ==
    CommandFunc(Fn(<<"context.Context", "struct", "int", "[]string">>, <<>>, TRUE, <<>>),
                <<>>, NilMap)

NestedCommands ==
    {CommandSet([k \in {do_} |->
        CommandSet([j \in {this_, that_} |-> IF j = this_ THEN thisCommand ELSE thatCommand])]),
     CommandSet([k \in {this_} |-> thisCommand])}

NestedTokens == {do_, this_, that_, HelpFlag, <<"-","-","b","o","g","u","s">>, <<"1">>, <<"-","-">>}

InitNested == InitWith(NestedCommands, {"nil"}, NestedTokens, {<<>>})

SpecNested == InitNested /\ [][NextFunction]_vars

\* the names the call was routed through, outermost first
RoutedNames == [i \in 1..Len(routed) |-> routed[i].name]

\* the node reached from node by the names
RECURSIVE NodeAt(_, _)
NodeAt(node, names) ==
    IF Len(names) = 0 THEN node ELSE NodeAt(node.cmds[names[1]], Tail(names))

\* the synopsis of a node on its own
OwnSynopsis(node) == usage(<<>>, node)

(***************************************************************************)
(* C18.  When a Help or a Usage is made at a node that the routing reached *)
(* through the names n1, ..., nk, the node the signal carries out of the   *)
(* outermost call is that node decorated once per name, so its synopsis is *)
(* n1, ..., nk, each once and in the order of the routing, and then the    *)
(* synopsis of the node itself.                                            *)
(***************************************************************************)
C18_Synopsis ==
    (pc = "done" /\ ret.err.kind \in {"Help", "Usage"}) =>
        /\ ret.err.Cmd.names = RoutedNames
        /\ ret.err.Cmd.base = FunctionOf(NodeAt(cmd, RoutedNames)).base
        /\ usage(ret.err.Cmd.names, cmd) = RoutedNames \o OwnSynopsis(NodeAt(cmd, RoutedNames))

\* the help of the command two names deep: "do this [options]"
C18_Witness ==
    /\ pc = "done"
    /\ args = <<do_, this_, HelpFlag>>
    /\ ret.err.kind = "Help"
    /\ usage(ret.err.Cmd.names, cmd) = <<do_, this_, <<"[options]">> >>

(***************************************************************************)
(* Hidden fields:                                                          *)
(*   func(config struct {                                                  *)
(*       Flag   string `flag:"-f,--flag" env:"FLAG" default:"-"`           *)
(*       Secret int    `flag:"-xx,--secret" env:"SECRET" hidden:"true"`    *)
(*   })                                                                    *)
(* with Secret required as above, with default:"7" and with default:"-".   *)
(***************************************************************************)
xx_ == <<"-","x","x">>
secret_ == <<"-","-","s","e","c","r","e","t">>
SECRET == <<"S","E","C","R","E","T">>

\* the structField of a field with the tag hidden:"true"
Hidden(f) == [f EXCEPT !.hidden = TRUE]

hiddenConfig(defval) ==
    << Field("string", <<f_, flag_>>, <<FLAG>>, <<"-">>),
       Hidden(Field("int", <<xx_, secret_>>, <<SECRET>>, defval)) >>

HiddenCommands ==
    {CommandFunc(Fn(<<"struct">>, hiddenConfig(defval), FALSE, <<>>), <<>>, NilMap) :
        defval \in {<<>>, <<"7">>, <<"-">>}}

HiddenTokens ==
    {Eq(xx_, <<"1">>), Eq(secret_, <<"2">>), Eq(f_, <<"x">>), Eq(<<"-","y">>, <<"1">>)}

InitHidden == InitWith(HiddenCommands, {"nil"}, HiddenTokens, {<<>>, <<Eq(SECRET, <<"4">>)>>})

SpecHidden == InitHidden /\ [][Next]_vars

\* the hidden fields of the struct, by their index
HiddenFields == {k \in 1..Len(cmd.Func.fields) : cmd.Func.fields[k].hidden}

\* the canonical flags of the fields that are not hidden, and of the help option
Listed ==
    {Canonical(cmd.Func.fields[k]) : k \in (1..Len(cmd.Func.fields)) \ HiddenFields}
        \cup {HelpFlag}

\* the width of the short flags a row shows
RECURSIVE RowWidth(_, _)
RowWidth(short, i) ==
    IF i > Len(short) THEN 0 ELSE Len(short[i]) + 2 + RowWidth(short, i + 1)

\* the option list: one row for each listed option and no other, and a column of
\* short flags as wide as the widest of the rows
ListedOnly(rows) ==
    /\ {rows[i].name : i \in 1..Len(rows)} = Listed
    /\ Len(rows) = Cardinality(Listed)
    /\ \A i \in 1..Len(rows) :
          /\ \A j \in 1..Len(rows[i].short) : rows[i].short[j] # xx_
          /\ \A j \in 1..Len(rows[i].long) : rows[i].long[j] # secret_
          /\ \E w \in 1..Len(rows) :
                /\ RowWidth(rows[i].short, 1) + rows[i].pad = RowWidth(rows[w].short, 1)
                /\ \A j \in 1..Len(rows) :
                      RowWidth(rows[j].short, 1) <= RowWidth(rows[w].short, 1)

\* every token of the vector gives a value to an option of the struct
OptionsOnly ==
    \A i \in 1..Len(args) :
        \E k \in 1..Len(cmd.Func.fields) : \E j \in 1..Len(cmd.Func.fields[k].flags) :
            HasPrefix(args[i], cmd.Func.fields[k].flags[j] \o <<"=">>)

(***************************************************************************)
(* C19.  A field with the tag hidden:"true" has no row in the option list  *)
(* and no part in the width of the column of short flags; yet the parser   *)
(* recognizes its flags, it takes its value from the command line, then    *)
(* the environment, then the default, it is required when it has no        *)
(* default, and it is bound like any other field.                          *)
(***************************************************************************)
C19_Hidden ==
    pc # "ready" =>
        /\ ListedOnly(optionRows(cmd))
        /\ OptionsOnly => ret.err.msg # "unrecognized option"
        /\ \A k \in HiddenFields :
              /\ (/\ Invoked
                  /\ \/ GivenValues(args, cmd.Func.fields[k], 1) # <<>>
                     \/ EnvPresent(cmd.Func.fields[k], env) # {}
                     \/ HasDefault(cmd.Func.fields[k]))
                 => calls[1].config[k]
                      = decodeFunc(cmd.Func.fields[k].typ, C1_Source(cmd.Func.fields[k])).v
              /\ (ParseOK /\ IsRequired(cmd.Func.fields[k]) /\ Unset(cmd.Func.fields[k]))
                 => /\ UsageReturned("missing required flag")
                    /\ ret.err.name = Canonical(cmd.Func.fields[k])

\* the hidden option given by its short flag is bound, and the list shows the rows
\* of --flag and --help only, the short column four wide
C19_Witness ==
    /\ Invoked
    /\ args = <<Eq(xx_, <<"1">>)>>
    /\ calls[1].config[2] = 1
    /\ Len(optionRows(cmd)) = 2
    /\ optionRows(cmd)[1].name = flag_
    /\ optionRows(cmd)[1].pad = 0
    /\ optionRows(cmd)[2].name = HelpFlag

(***************************************************************************)
(* Decoding the options: the scalar option of SpecScalar given once, more  *)
(* than once, with a value that does not decode, from the environment, and *)
(* next to the help option and a positional value.                         *)
(***************************************************************************)
DecodeTokens == {Eq(f_, <<"1">>), Eq(flag_, <<>>), f_, <<"2">>, HelpFlag}

InitDecode ==
    InitWith(ScalarCommands, {"nil"}, DecodeTokens, {<<>>, <<Eq(FLAG, <<"x">>)>>})

SpecDecode == InitDecode /\ [][Next]_vars

\* the values the command line gives to the option of field f, once it parsed
Parsed(f) ==
    IF Canonical(f) \in DOMAIN parseCommandLine(cmd.parser, args).options
    THEN parseCommandLine(cmd.parser, args).options[Canonical(f)]
    ELSE <<>>

\* the values field f is decoded from: those of the command line, or else the one
\* of the environment
Merged(f) ==
    IF Parsed(f) # <<>> THEN Parsed(f)
    ELSE IF EnvPresent(f, env) # {} THEN <<EnvValue(f, env)>>
    ELSE <<>>

\* no token of the vector is the help option
NoHelpOption ==
    \A i \in 1..Len(args) :
        splitNameValue(args[i]).name \notin {<<"-","h">>, HelpFlag}

\* the call returned (1, a Usage "decoding" that names the canonical flag of f,
\* carries the leaf and wraps the error of this message), without invoking cmd.Func
DecodingReturned(f, m) ==
    /\ AnyUsageReturned
    /\ ret.err.msg = "decoding"
    /\ ret.err.name = Canonical(f)
    /\ ret.err.Cmd = Self
    /\ ret.err.cause = m

(***************************************************************************)
(* C20.  On a call that gets to the decoding of the options (the vector    *)
(* parses, no token is the help option, no required flag is missing): a    *)
(* scalar option given more than once, through any mix of its names, and   *)
(* any other value of an option that does not decode, make Call return     *)
(* (1, a Usage) whose message names the canonical flag, whose node is the  *)
(* leaf and whose cause is the error of the decoder, the count error "too  *)
(* many arguments" when the option was given more than once; the callable  *)
(* is not invoked.                                                         *)
(***************************************************************************)
C20_DecodeFailure ==
    (pc # "ready" /\ ParseOK /\ NoHelpOption /\ UnsetRequired = {}) =>
        /\ Len(Parsed(cmd.Func.fields[1])) > 1 =>
              DecodingReturned(cmd.Func.fields[1], "too many arguments")
        /\ (/\ Merged(cmd.Func.fields[1]) # <<>>
            /\ decodeFunc(cmd.Func.fields[1].typ, Merged(cmd.Func.fields[1])).err # NoError)
           => DecodingReturned(cmd.Func.fields[1],
                  decodeFunc(cmd.Func.fields[1].typ, Merged(cmd.Func.fields[1])).err.msg)

\* C20 as stated: the scalar option given more than once on any command line that
\* parses
C20_AsStated ==
    (pc # "ready" /\ ParseOK /\ Len(Parsed(cmd.Func.fields[1])) > 1) =>
        DecodingReturned(cmd.Func.fields[1], "too many arguments")

\* -f=1 and then -f 2: two values for --flag
C20_Witness ==
    /\ args = <<Eq(f_, <<"1">>), f_, <<"2">>>>
    /\ DecodingReturned(cmd.Func.fields[1], "too many arguments")

(***************************************************************************)
(* The schema of an options struct: structs of one or two string fields,   *)
(* each with one or two flags drawn from names that can repeat within a    *)
(* field, across fields, and collide with -h and --help.                   *)
(*   type config struct {                                                  *)
(*       A string `flag:"-a,--x" default:"-"`                              *)
(*       B string `flag:"--y" default:"-"`                                 *)
(*   }                                                                     *)
(***************************************************************************)
a_ == <<"-","a">>
x_ == <<"-","-","x">>
y_ == <<"-","-","y">>

SchemaFlags == {a_, x_, y_, <<"-","h">>, HelpFlag}

\* the flag lists of a field, and the fields of a struct
FlagLists == UNION {[1..n -> SchemaFlags] : n \in 1..2}

schemaConfig(fl) ==
    Fn(<<"struct">>, [k \in 1..Len(fl) |-> Field("string", fl[k], <<>>, <<"-">>)],
       FALSE, <<>>)

SchemaCommands ==
    {CommandFunc(schemaConfig(fl), <<>>, NilMap) :
        fl \in UNION {[1..n -> FlagLists] : n \in 1..2}}

SchemaTokens == {Eq(x_, <<"1">>), Eq(a_, <<"2">>)}

InitSchema == InitWith(SchemaCommands, {"nil"}, SchemaTokens, {<<>>})

SpecSchema == InitSchema /\ [][Next]_vars

\* the places of the flags in the struct: field k, flag i
FlagPlaces ==
    {pl \in (1..2) \X (1..2) :
        pl[1] <= Len(cmd.Func.fields) /\ pl[2] <= Len(cmd.Func.fields[pl[1]].flags)}

FlagAt(pl) == cmd.Func.fields[pl[1]].flags[pl[2]]

IsLastFlag(pl) == pl[2] = Len(cmd.Func.fields[pl[1]].flags)

\* a flag name occurs twice in the struct, or is one of the synthesized names
RepeatedFlag ==
    \/ \E pl \in FlagPlaces, ql \in FlagPlaces : pl # ql /\ FlagAt(pl) = FlagAt(ql)
    \/ \E pl \in FlagPlaces : FlagAt(pl) \in {<<"-","h">>, HelpFlag}

(***************************************************************************)
(* C21.  The first Call on a leaf derives the schema of its options        *)
(* struct.  A flag name that occurs twice (within a field, across fields,  *)
(* or equal to -h or --help) makes the derivation panic, and the node is   *)
(* left without tables; no other struct does.  When the derivation         *)
(* completes: every flag but the last of a field is an alias mapped to the *)
(* last one, the last one is a key of the option table and of the decoder  *)
(* table with the decoder of that field; the aliases are exactly these     *)
(* names and -h, the canonical names exactly the last flags and --help;    *)
(* no name is both; every alias target is a canonical name; the option     *)
(* table and the decoder table have the same keys; -h maps to --help.      *)
(***************************************************************************)
C21_Schema ==
    pc # "ready" =>
        /\ pc = "panic" <=> RepeatedFlag
        /\ pc = "panic" => cmd.parser = NilParser /\ cmd.options = EmptyMap
        /\ pc = "done" =>
              /\ \A pl \in FlagPlaces :
                    IF IsLastFlag(pl)
                    THEN /\ FlagAt(pl) \in DOMAIN cmd.parser.options
                         /\ FlagAt(pl) \in DOMAIN cmd.options
                         /\ cmd.options[FlagAt(pl)].index = pl[1]
                         /\ cmd.options[FlagAt(pl)].flags = cmd.Func.fields[pl[1]].flags
                    ELSE /\ FlagAt(pl) \in DOMAIN cmd.parser.aliases
                         /\ cmd.parser.aliases[FlagAt(pl)] =
                               cmd.Func.fields[pl[1]].flags[Len(cmd.Func.fields[pl[1]].flags)]
              /\ DOMAIN cmd.parser.aliases =
                    {<<"-","h">>} \cup {FlagAt(pl) : pl \in {ql \in FlagPlaces : ~IsLastFlag(ql)}}
              /\ DOMAIN cmd.parser.options =
                    {HelpFlag} \cup {FlagAt(pl) : pl \in {ql \in FlagPlaces : IsLastFlag(ql)}}
              /\ DOMAIN cmd.parser.aliases \cap DOMAIN cmd.parser.options = {}
              /\ \A al \in DOMAIN cmd.parser.aliases :
                    cmd.parser.aliases[al] \in DOMAIN cmd.parser.options
              /\ DOMAIN cmd.options = DOMAIN cmd.parser.options
              /\ cmd.parser.aliases[<<"-","h">>] = HelpFlag
              /\ cmd.options[HelpFlag].flags = << <<"-","h">>, HelpFlag >>

\* struct{A `flag:"-a,--x"`; B `flag:"--y"`} called with -a=2: the alias resolved
C21_Witness ==
    /\ pc = "done"
    /\ Len(cmd.Func.fields) = 2
    /\ cmd.Func.fields[1].flags = <<a_, x_>>
    /\ cmd.Func.fields[2].flags = <<y_>>
    /\ args = <<Eq(a_, <<"2">>)>>
    /\ Len(calls) = 1
    /\ calls[1].config[1] = <<"2">>
    /\ cmd.parser.aliases[a_] = x_

(***************************************************************************)
(* decode.go: forEachStructField.  A struct type is the list of its        *)
(* reflect.StructFields [Name, PkgPath, Anonymous, Type, Tag]: PkgPath is  *)
(* empty for an exported field, Type is the name of the field's type, or   *)
(* the struct type of an embedded field, and Tag gives the value of the    *)
(* keys flag, env, default and hidden, the empty string for a key the tag  *)
(* does not have.  A structField reported is [typ, index, envvars, flags,  *)
(* defval, hidden]; index is the path of field positions from the top      *)
(* struct.                                                                 *)
(***************************************************************************)
\* strings.Split(s, sep) for a separator of one byte; i = IndexByte(s, sep)
RECURSIVE Split(_, _)
splitOn(s, sep, i) ==
    IF i = 0 THEN <<s>>
    ELSE <<SubSeq(s, 1, i - 1)>> \o Split(SubSeq(s, i + 1, Len(s)), sep)

Split(s, sep) == splitOn(s, sep, IndexByte(s, sep))

\* strings.TrimSpace on strings whose only white space is " "
RECURSIVE TrimSpace(_)
TrimSpace(s) ==
    IF Len(s) = 0 THEN s
    ELSE IF s[1] = " " THEN TrimSpace(Tail(s))
    ELSE IF s[Len(s)] = " " THEN TrimSpace(SubSeq(s, 1, Len(s) - 1))
    ELSE s

\* lines 171-175: the flags of a field, from the list strings.Split gave
trimmedFlags(splitFlags) == [i \in 1..Len(splitFlags) |-> TrimSpace(splitFlags[i])]

\* strings.ToUpper on one byte
ToUpperByte(c) ==
    IF \E i \in 40..65 : Alphabet[i] = c
    THEN Alphabet[(CHOOSE i \in 40..65 : Alphabet[i] = c) - 27]
    ELSE c

ToUpper(s) == [i \in 1..Len(s) |-> ToUpperByte(s[i])]

\* snakecase on a name of lower-case words joined by hyphens: the words joined by
\* underscores
snakecase(s) == [i \in 1..Len(s) |-> IF s[i] = "-" THEN "_" ELSE s[i]]

flagNameOf(s) ==
    IF HasPrefix(s, <<"-", "-">>) THEN SubSeq(s, 3, Len(s))
    ELSE IF HasPrefix(s, <<"-">>) THEN SubSeq(s, 2, Len(s))
    ELSE s

envNameOf(s) == ToUpper(snakecase(flagNameOf(s)))

\* longEnvNames without the test of line 181: every flag gives a name
RECURSIVE longEnvNames_anyFlag(_, _)
longEnvNames_anyFlag(flags, i) ==
    IF i > Len(flags) THEN <<>>
    ELSE <<envNameOf(flags[i])>> \o longEnvNames_anyFlag(flags, i + 1)

\* forEachStructField, lines 180-184: the names of the long flags from flag i on
RECURSIVE longEnvNames(_, _)
longEnvNames(flags, i) ==
    IF i > Len(flags) THEN <<>>
    ELSE IF isLongFlag(flags[i])
    THEN <<envNameOf(flags[i])>> \o longEnvNames(flags, i + 1)
    ELSE longEnvNames(flags, i + 1)

\* lines 178-189: the switch on the env tag
envvarsOf(tagEnv, flags) ==
    IF tagEnv = <<>> THEN longEnvNames(flags, 1)
    ELSE IF tagEnv = <<"-">> THEN <<>>
    ELSE <<tagEnv>>

\* isSupportedFieldType on the types of the model
isSupportedFieldType(t) == t \in {"bool", "string", "int", "int8", "[]string", "[]int"}

\* lines 196-204: the structField given to `do` for field f
structField(f, fieldIndex, flags) ==
    [typ |-> f.Type, index |-> fieldIndex, envvars |-> envvarsOf(f.Tag.env, flags),
     flags |-> flags, defval |-> f.Tag.default, hidden |-> f.Tag.hidden \in ParseBoolTrue]

\* forEachStructField(t, index, do) from field i on: [panic, fields], fields being
\* `reported` followed by the structFields given to `do`, in order
RECURSIVE forEachStructField(_, _, _, _)
\* lines 155-158: r is the result of the call on the embedded struct
embeddedFields(t, index, i, r) ==
    IF r.panic THEN r ELSE forEachStructField(t, index, i + 1, r.fields)

forEachStructField(t, index, i, reported) ==
    IF i > Len(t) THEN [panic |-> FALSE, fields |-> reported]
    ELSE IF t[i].Anonymous
    THEN embeddedFields(t, index, i,
             forEachStructField(t[i].Type, Append(index, i), 1, reported))
    ELSE IF t[i].PkgPath # <<>> \/ t[i].Name = Underscore
    THEN forEachStructField(t, index, i + 1, reported)
    ELSE IF ~isSupportedFieldType(t[i].Type) THEN [panic |-> TRUE, fields |-> reported]
    ELSE forEachStructField(t, index, i + 1,
             Append(reported,
                 structField(t[i], Append(index, i),
                     trimmedFlags(Split(t[i].Tag.flag, ",")))))

\* forEachStructField(structType, nil, do) called as TestForEachStructField calls it
ForEachStructField ==
    /\ pc = "ready"
    /\ got' = forEachStructField(structType, <<>>, 1, <<>>)
    /\ pc' = IF got'.panic THEN "panic" ELSE "done"
    /\ UNCHANGED <<cmd, ctx, args, env, ret, calls, routed, exit, Err, structType>>

NextFields == ForEachStructField

(***************************************************************************)
(* The fields of an options struct: structs of one or two fields, exported *)
(* or not or named "_", with one, two or three flags and each kind of env  *)
(* tag, and the same fields inside an embedded struct.                     *)
(*   type config struct {                                                  *)
(*       Name     string `flag:"-n,--name"`                                *)
(*       Surname  string `flag:"-s, --surname, --last-name" env:"-"`       *)
(*       darkside string `flag:"-p" env:"CUSTOM"`                          *)
(*   }                                                                     *)
(***************************************************************************)
s_ == <<"-","s">>
p_ == <<"-","p">>
CUSTOM == <<"C","U","S","T","O","M">>

tagName == <<"-","n",",","-","-","n","a","m","e">>
tagSurname == <<"-","s",","," ","-","-","s","u","r","n","a","m","e",","," ","-","-","l","a","s","t","-","n","a","m","e">>

\* what the flag tags of the structs mean, and the environment names of their flags
FlagTags ==
    (tagName :> <<n_, name_>>) @@ (tagSurname :> <<s_, surname_, lastname_>>) @@
    (p_ :> <<p_>>)

EnvNames == (name_ :> NAME) @@ (surname_ :> SURNAME) @@ (lastname_ :> LAST_NAME)

StructField(name, pkgPath, tagFlag, tagEnv) ==
    [Name |-> name, PkgPath |-> pkgPath, Anonymous |-> FALSE, Type |-> "string",
     Tag |-> [flag |-> tagFlag, env |-> tagEnv, default |-> <<>>, hidden |-> <<>>]]

Embedded(t) ==
    [Name |-> <<"E","m","b","e","d","d","e","d">>, PkgPath |-> <<>>, Anonymous |-> TRUE, Type |-> t,
     Tag |-> [flag |-> <<>>, env |-> <<>>, default |-> <<>>, hidden |-> <<>>]]

FieldKinds ==
    {StructField(nm[1], nm[2], tf, te) :
        nm \in {<<<<"N","a","m","e">>, <<>>>>, <<<<"d","a","r","k","s","i","d","e">>, <<"c","l","i">>>>, <<Underscore, <<"c","l","i">>>>},
        tf \in DOMAIN FlagTags,
        te \in {<<>>, <<"-">>, CUSTOM}}

StructTypes ==
    UNION {[1..n -> FieldKinds] : n \in 1..2}
    \cup {<<Embedded(<<f>>), f>> : f \in FieldKinds}

InitFields ==
    /\ structType \in StructTypes
    /\ got = <<>>
    /\ cmd = CommandFunc(NilFunc, <<>>, NilMap)
    /\ ctx = "nil"
    /\ args = <<>>
    /\ env = <<>>
    /\ pc = "ready"
    /\ ret = [code |-> 0, err |-> NoError]
    /\ calls = <<>>
    /\ routed = <<>>
    /\ exit = 0
    /\ Err = <<>>

SpecFields == InitFields /\ [][NextFields]_vars

\* the fields of a struct type with those of its embedded structs in their place
Flat(t) ==
    LET RECURSIVE flat(_)
        flat(i) == IF i > Len(t) THEN <<>>
                   ELSE (IF t[i].Anonymous THEN t[i].Type ELSE <<t[i]>>) \o flat(i + 1)
    IN flat(1)

\* the fields that get a schema entry: exported and not named "_"
Reported(fs) == SelectSeq(fs, LAMBDA f : f.PkgPath = <<>> /\ f.Name # Underscore)

\* the environment candidates of a field with the flags fl and the env tag te
Candidates(fl, te) ==
    IF te = <<"-">> THEN <<>>
    ELSE IF te # <<>> THEN <<te>>
    ELSE LET long == SelectSeq(fl, LAMBDA f : f \in DOMAIN EnvNames)
         IN [i \in 1..Len(long) |-> EnvNames[long[i]]]

(***************************************************************************)
(* C22.  forEachStructField reports one structField for every field that   *)
(* is exported and not named "_", in the order of the struct (the fields   *)
(* of an embedded struct in its place), and none for the others.  The      *)
(* flags of the field reported are the trimmed names of its flag tag, and  *)
(* its environment candidates are: the env tag alone when it has one other *)
(* than "-"; none when the tag is "-"; otherwise the upper-snake-case      *)
(* names of its long flags, in the order of the flags, a short flag giving *)
(* no name.                                                                *)
(***************************************************************************)
C22_EnvCandidates ==
    pc # "ready" =>
        /\ pc = "done"
        /\ Len(got.fields) = Len(Reported(Flat(structType)))
        /\ \A i \in 1..Len(got.fields) :
              /\ got.fields[i].flags = FlagTags[Reported(Flat(structType))[i].Tag.flag]
              /\ got.fields[i].envvars =
                    Candidates(FlagTags[Reported(Flat(structType))[i].Tag.flag],
                               Reported(Flat(structType))[i].Tag.env)

\* Surname with -s, --surname, --last-name and no env tag, after an unexported field
C22_Witness ==
    /\ pc = "done"
    /\ Len(structType) = 2
    /\ structType[1].PkgPath # <<>>
    /\ structType[2].Tag = [flag |-> tagSurname, env |-> <<>>, default |-> <<>>,
                            hidden |-> <<>>]
    /\ Len(got.fields) = 1
    /\ got.fields[1].index = <<2>>
    /\ got.fields[1].envvars = <<SURNAME, LAST_NAME>>

(***************************************************************************)
(* A node called more than once.  Between two calls the program may assign *)
(* the exported field IgnoreEnvOptions, and it gives the next call its     *)
(* vector and its environment.                                             *)
(*   type config struct {                                                  *)
(*       Name string `flag:"-n,--name" default:"-"`                        *)
(*   }                                                                     *)
(*   func(config config)                                                   *)
(*   func(ctx context.Context, config config, s string, sub ...string)     *)
(***************************************************************************)
MaxCalls == 3

reuseConfig == << Field("string", <<n_, name_>>, <<NAME>>, <<"-">>) >>

ReuseFuncs ==
    {Fn(<<"struct">>, reuseConfig, FALSE, <<>>),
     Fn(<<"context.Context", "struct", "string", "[]string">>, reuseConfig, TRUE, <<>>)}

ReuseIgnored == {<<>>, <<name_>>}

ReuseVectors ==
    {<<>>, <<Eq(name_, <<"a">>)>>, <<HelpFlag>>, << <<"-","x">> >>, << <<"v">> >>,
     << <<"v">>, <<"-","-">>, <<"w">> >>}

ReuseEnvs == {<<>>, <<Eq(NAME, <<"e">>)>>}

InitReuse ==
    /\ cmd \in {CommandFunc(fn, ig, NilMap) : fn \in ReuseFuncs, ig \in ReuseIgnored}
    /\ ctx = "TODO"
    /\ args \in ReuseVectors
    /\ env \in ReuseEnvs
    /\ pc = "ready"
    /\ ret = [code |-> 0, err |-> NoError]
    /\ calls = <<>>
    /\ routed = <<>>
    /\ exit = 0
    /\ Err = <<>>
    /\ structType = <<>>
    /\ got = <<>>

\* after a Call that returned, with fewer than MaxCalls invocations made: the program
\* sets up another Call on the node
Reuse ==
    /\ pc = "done"
    /\ Len(calls) < MaxCalls
    /\ \E ig \in ReuseIgnored : cmd' = [cmd EXCEPT !.IgnoreEnvOptions = ig]
    /\ args' \in ReuseVectors
    /\ env' \in ReuseEnvs
    /\ pc' = "ready"
    /\ ret' = [code |-> 0, err |-> NoError]
    /\ UNCHANGED <<ctx, calls, routed, exit, Err, structType, got>>

NextReuse == Call \/ Reuse

SpecReuse == InitReuse /\ [][NextReuse]_vars

\* the node as the program made it: nothing derived
Underived(c) ==
    /\ ~c.function
    /\ c.parser = NilParser
    /\ c.options = EmptyMap
    /\ c.values = <<>>
    /\ ~c.variadic
    /\ ~c.context

\* what is derived from the Func of the node
DerivedFrom(c) ==
    /\ c.function
    /\ c.parser.aliases = (<<"-","h">> :> HelpFlag) @@ (n_ :> name_)
    /\ DOMAIN c.parser.options = {HelpFlag, name_}
    /\ DOMAIN c.options = {HelpFlag, name_}
    /\ c.options[name_].index = 1
    /\ c.options[name_].envvars = <<NAME>>
    /\ c.values = IF Len(c.Func.in) = 1 THEN <<>> ELSE <<"string">>
    /\ c.variadic = (Len(c.Func.in) = 4)
    /\ c.context = (c.Func.in[1] = "context.Context")

\* a step that is a Call returning
CallReturns == pc = "ready" /\ pc' = "done"

(***************************************************************************)
(* C23.  A leaf node is made with nothing derived.  Its first Call derives *)
(* the callable, the parser tables, the option schema, the positional      *)
(* decoders and the variadic and context classification from its Func,     *)
(* and from then on no step changes any of them: not a later Call,         *)
(* whatever its vector, its environment and its outcome, and not the       *)
(* program assigning IgnoreEnvOptions in between.                          *)
(***************************************************************************)
C23_ConfiguredOnce ==
    /\ Underived(cmd)
    /\ [][/\ CallReturns => DerivedFrom(cmd')
          /\ cmd.function =>
                /\ cmd'.function
                /\ cmd'.Func = cmd.Func
                /\ cmd'.parser = cmd.parser
                /\ cmd'.options = cmd.options
                /\ cmd'.values = cmd.values
                /\ cmd'.variadic = cmd.variadic
                /\ cmd'.context = cmd.context]_vars

\* three invocations of func(ctx, config, s, sub...) on the one node, the last with
\* the name from the command line
C23_Witness ==
    /\ pc = "done"
    /\ Len(calls) = 3
    /\ DerivedFrom(cmd)
    /\ cmd.context
    /\ calls[1].config[1] = <<"e">>
    /\ calls[3].params = << <<"v">> >>
    /\ calls[3].command = << <<"w">> >>

\* the vector of the pending call gives the option of the field Name
NameGiven == \E i \in 1..Len(args) : splitNameValue(args[i]).name \in {n_, name_}

\* the error is one of the parser
ParseError(err) ==
    /\ err.kind = "Usage"
    /\ err.msg \in {"unrecognized option", "missing option value", "unexpected boolean value"}

\* a step that is a Call which got past the help test
PastHelp == CallReturns /\ ~ParseError(ret'.err) /\ ret'.err.kind # "Help"

\* a step that is a Call which invoked cmd.Func
Invokes == CallReturns /\ Len(calls') = Len(calls) + 1

(***************************************************************************)
(* C29.  No step takes a name out of the IgnoreEnvOptionsMap of a leaf     *)
(* node.  A Call that gets past the help test adds the names listed in     *)
(* IgnoreEnvOptions at that time, and a Call that stops before it leaves   *)
(* the map as it is.  A name that an earlier Call put into the map keeps   *)
(* the environment from filling its option in every later Call, also when  *)
(* the program has taken the name out of IgnoreEnvOptions since: the       *)
(* option left off the command line is bound to its zero value although    *)
(* the environment defines its candidate name.                             *)
(***************************************************************************)
C29_ExclusionGrows ==
    [][/\ cmd.IgnoreEnvOptionsMap.keys \subseteq cmd'.IgnoreEnvOptionsMap.keys
       /\ PastHelp =>
             cmd'.IgnoreEnvOptionsMap.keys =
                cmd.IgnoreEnvOptionsMap.keys
                   \cup {cmd.IgnoreEnvOptions[i] : i \in 1..Len(cmd.IgnoreEnvOptions)}
       /\ (CallReturns /\ ~PastHelp) => cmd'.IgnoreEnvOptionsMap = cmd.IgnoreEnvOptionsMap
       /\ (Invokes /\ name_ \in cmd.IgnoreEnvOptionsMap.keys /\ ~NameGiven) =>
             calls'[Len(calls')].config[1] = <<>>]_vars

\* the name was listed for the first call and not for the second, whose environment
\* defines NAME: the second invocation gets the empty name
C29_Witness ==
    /\ pc = "done"
    /\ Len(calls) = 2
    /\ cmd.IgnoreEnvOptions = <<>>
    /\ cmd.IgnoreEnvOptionsMap.keys = {name_}
    /\ env = <<Eq(NAME, <<"e">>)>>
    /\ args = <<>>
    /\ calls[2].config[1] = <<>>

(***************************************************************************)
(* Command definitions with a defect: a nil Func, a function returning     *)
(* (string), an options struct that repeats a flag; as a child of the root *)
(* set, as a child of a nested set, and as the "_" entry.                  *)
(*   cli.CommandSet{"this": ok, "that": &cli.CommandFunc{}}                *)
(*   cli.CommandSet{"this": ok, "do": cli.CommandSet{"that": defect}}      *)
(*   cli.CommandSet{"this": ok, "_": &cli.CommandFunc{}}                   *)
(***************************************************************************)
DefectiveFuncs ==
    {NilFunc,
     Fn(<<"struct">>, <<>>, FALSE, <<"string">>),
     Fn(<<"struct">>, << Field("string", <<name_, name_>>, <<>>, <<"-">>) >>, FALSE, <<>>)}

DefectCommands ==
    UNION {{CommandSet((this_ :> thisCommand) @@ (that_ :> CommandFunc(fn, <<>>, NilMap))),
            CommandSet((this_ :> thisCommand) @@
                       (do_ :> CommandSet((this_ :> thisCommand) @@
                                          (that_ :> CommandFunc(fn, <<>>, NilMap))))),
            CommandSet((this_ :> thisCommand) @@
                       (Underscore :> CommandFunc(fn, <<>>, NilMap)))} :
           fn \in DefectiveFuncs}

DefectTokens == {this_, that_, do_, HelpFlag}

InitDefect == InitWith(DefectCommands, {"nil"}, DefectTokens, {<<>>})

SpecDefect == InitDefect /\ [][NextFunction]_vars

\* the leaf commands below a set, at any depth, that are not under a key "_"
RECURSIVE Descendants(_)
Descendants(node) ==
    IF ~IsSet(node) THEN {node}
    ELSE UNION {Descendants(node.cmds[k]) : k \in DOMAIN node.cmds \ {Underscore}}

(***************************************************************************)
(* C24.  A call on a command set configures every leaf command below it,   *)
(* through the nested sets at every depth and except the "_" entries,      *)
(* before it looks at the arguments: when the definition of one of them    *)
(* has a defect the call panics, whichever child the vector names and also *)
(* when it asks for help; and a call that returns leaves all of them       *)
(* configured.                                                             *)
(***************************************************************************)
C24_AllConfigured ==
    pc # "ready" =>
        /\ (\E c \in Descendants(cmd) : c.Func \in DefectiveFuncs) => pc = "panic"
        /\ pc = "done" => \A c \in Descendants(cmd) : c.function

(***************************************************************************)
(* parseCommandLine called on the parser of a configured node, as          *)
(* TestParseCommandLine calls it: a string option -A and a boolean option  *)
(* --bool with the alias -b.                                               *)
(*   type config struct {                                                  *)
(*       A    string `flag:"-A" default:"-"`                               *)
(*       Bool bool   `flag:"-b,--bool"`                                    *)
(*   }                                                                     *)
(***************************************************************************)
A_ == <<"-","A">>
b_ == <<"-","b">>
bool_ == <<"-","-","b","o","o","l">>

parseConfig ==
    << Field("string", <<A_>>, <<>>, <<"-">>), Field("bool", <<b_, bool_>>, <<>>, <<>>) >>

ParseCommands ==
    {configure(CommandFunc(Fn(<<"struct">>, parseConfig, FALSE, <<>>), <<>>, NilMap)).cmd}

bogus_ == <<"-","-","b","o","g","u","s">>

ParseTokens == {A_, Eq(A_, <<"1">>), bool_, b_, bogus_, <<"a">>, <<"-">>, <<"-","-">>}

InitParse == InitWith(ParseCommands, {"nil"}, ParseTokens, {<<>>})

\* cmd.parser.parseCommandLine(args)
ParseCommandLine ==
    /\ pc = "ready"
    /\ got' = parseCommandLine(cmd.parser, args)
    /\ pc' = "done"
    /\ UNCHANGED <<cmd, ctx, args, env, ret, calls, routed, exit, Err, structType>>

NextParse == ParseCommandLine

SpecParse == InitParse /\ [][NextParse]_vars

\* what token i of the vector a is: the value of the bare -A before it, an option
\* token, or a positional value
RECURSIVE Role(_, _)
Role(a, i) ==
    IF i > 1 /\ a[i - 1] = A_ /\ Role(a, i - 1) = "option" THEN "value"
    ELSE IF Len(a[i]) > 1 /\ a[i][1] = "-" THEN "option"
    ELSE "positional"

\* the tokens before the first "--" that have this role
Tokens(a, role) == {i \in 1..(SepIndex(a) - 1) : Role(a, i) = role}

\* the canonical name of an option token, and the value it gives
OptionOf(tok) == IF tok \in {A_, Eq(A_, <<"1">>)} THEN A_ ELSE bool_

ValueOf(a, i) ==
    IF a[i] = A_ THEN a[i + 1]
    ELSE IF a[i] = Eq(A_, <<"1">>) THEN <<"1">>
    ELSE <<"t","r","u","e">>

\* the elements that f gives for the indices of S, in increasing order
RECURSIVE InOrder(_, _)
InOrder(S, f) == IF S = {} THEN <<>> ELSE <<f[Min(S)]>> \o InOrder(S \ {Min(S)}, f)

\* the option tokens before the first "--" that the parser cannot take: one that
\* names no option, and a bare -A that is the last token or is followed by a token
\* that starts with "-" and is longer than one character
Defects(a) ==
    {i \in Tokens(a, "option") :
        \/ a[i] = bogus_
        \/ a[i] = A_ /\ (i = Len(a) \/ (Len(a[i + 1]) > 1 /\ a[i + 1][1] = "-"))}

WellFormed(a) == Defects(a) = {}

\* the result g is the split of the vector a at its first "--"
SplitAtSeparator(a, g) ==
    /\ g.command = SubSeq(a, SepIndex(a) + 1, Len(a))
    /\ g.values = InOrder(Tokens(a, "positional"), a)
    /\ DOMAIN g.options = {OptionOf(a[i]) : i \in Tokens(a, "option")}
    /\ \A name \in DOMAIN g.options :
          g.options[name] =
             InOrder({i \in Tokens(a, "option") : OptionOf(a[i]) = name},
                     [i \in 1..Len(a) |-> IF Role(a, i) = "option" THEN ValueOf(a, i) ELSE <<>>])
    /\ Len(g.values) + Cardinality(Tokens(a, "option")) + Cardinality(Tokens(a, "value"))
          = SepIndex(a) - 1

(***************************************************************************)
(* C25.  parseCommandLine returns no error exactly on the vectors in which *)
(* every option token before the first "--" names an option and every bare *)
(* -A there is followed by a token that does not look like an option.  On  *)
(* these vectors the first token equal to "--" ends the scan:              *)
(* the tokens after it are the command, as they are and in                 *)
(* order, also those that look like an option or are "--" again, and none  *)
(* of them is an option or a positional value; every token before it is    *)
(* taken once, as a positional value (in order), as an option token, or as *)
(* the value of the option token just before it.  The call changes neither *)
(* the tables of the parser nor the vector.                                *)
(***************************************************************************)
C25_Separator ==
    [][/\ cmd' = cmd
       /\ args' = args
       /\ got'.err = NoError <=> WellFormed(args)
       /\ got'.err = NoError => SplitAtSeparator(args, got')]_vars

\* the vector has a "--", and no token before it makes the parse fail on its own:
\* every bare -A before it is followed by a value or by the "--" itself
ReachesSeparator(a) ==
    /\ SepIndex(a) <= Len(a)
    /\ \A i \in Tokens(a, "option") :
          /\ a[i] # bogus_
          /\ a[i] = A_ => (i + 1 = SepIndex(a) \/ ~(Len(a[i + 1]) > 1 /\ a[i + 1][1] = "-"))

\* C25 as stated: the first token equal to "--" ends the scan on every vector that
\* has one
C25_AsStated == (pc = "done" /\ ReachesSeparator(args)) => SplitAtSeparator(args, got)

\* a -- --bool: a token that looks like an option after the separator
C25_Witness ==
    /\ pc = "done"
    /\ args = << <<"a">>, <<"-","-">>, bool_ >>
    /\ got = ParseResult(EmptyMap, << <<"a">> >>, <<bool_>>, NoError)

\* the result g has what the tokens before token d gave, and no command
ExaminedBefore(a, g, d) ==
    /\ g.command = <<>>
    /\ g.values = InOrder({i \in Tokens(a, "positional") : i < d}, a)
    /\ DOMAIN g.options = {OptionOf(a[i]) : i \in {j \in Tokens(a, "option") : j < d}}
    /\ \A name \in DOMAIN g.options :
          g.options[name] =
             InOrder({i \in Tokens(a, "option") : i < d /\ OptionOf(a[i]) = name},
                     [i \in 1..Len(a) |-> IF Role(a, i) = "option" /\ i < d
                                          THEN ValueOf(a, i) ELSE <<>>])

(***************************************************************************)
(* C26.  The string option -A written without =value takes the token after *)
(* it as its value, and that token only: the token is no positional value  *)
(* and no option.  The first option token of the vector that is a bare -A  *)
(* with no token after it, or with a token after it that starts with "-"   *)
(* and is longer than one character ("--" included), makes the parse       *)
(* return a Usage "missing option value" that names it; the first one that *)
(* names no option, a Usage "unrecognized option" that names it.  In both  *)
(* cases nothing after it is looked at: the result has only what the       *)
(* tokens before it gave, and no command.                                  *)
(***************************************************************************)
C26_MissingValue ==
    pc = "done" =>
        /\ Defects(args) = {} =>
              /\ got.err = NoError
              /\ \A i \in Tokens(args, "option") :
                    args[i] = A_ =>
                       /\ Role(args, i + 1) = "value"
                       /\ Cardinality({j \in Tokens(args, "option") :
                                          j <= i /\ OptionOf(args[j]) = A_})
                             <= Len(got.options[A_])
                       /\ got.options[A_][Cardinality({j \in Tokens(args, "option") :
                                                         j <= i /\ OptionOf(args[j]) = A_})]
                             = args[i + 1]
              /\ Len(got.values) = Cardinality(Tokens(args, "positional"))
        /\ Defects(args) # {} =>
              /\ got.err =
                    UsageErr(NilCmd,
                        IF args[Min(Defects(args))] = A_ THEN "missing option value"
                        ELSE "unrecognized option",
                        args[Min(Defects(args))])
              /\ ExaminedBefore(args, got, Min(Defects(args)))

\* a -A -- : the separator after the bare option, and the value before is kept
C26_Witness ==
    /\ pc = "done"
    /\ args = << <<"a">>, A_, <<"-","-">> >>
    /\ got = ParseResult(EmptyMap, << <<"a">> >>, <<>>,
                 UsageErr(NilCmd, "missing option value", A_))

\* a help option given the value false
IsHelpFalse(tok) ==
    tok \in {Eq(<<"-","h">>, <<"f","a","l","s","e">>), Eq(HelpFlag, <<"f","a","l","s","e">>)}

\* the vector without these tokens
WithoutHelpFalse(a) == SelectSeq(a, LAMBDA tok : ~IsHelpFalse(tok))

(***************************************************************************)
(* C27.  On a leaf command whose function takes an options struct, a help  *)
(* option of value false (--help=false, -h=false) has no effect: when the  *)
(* call with the rest of the vector invokes the function, so does the call *)
(* with the token, with the same options struct bound and the same code    *)
(* returned; it returns no Help and does not fail.                         *)
(***************************************************************************)
C27_HelpFalse ==
    (/\ pc # "ready"
     /\ \E i \in 1..Len(cmd.Func.in) : cmd.Func.in[i] = "struct"
     /\ \E i \in 1..Len(args) : IsHelpFalse(args[i])
     /\ \A o \in CallResults(cmd, ctx, WithoutHelpFalse(args), env) : Len(o.call) = 1)
    => /\ pc = "done"
       /\ Len(calls) = 1
       /\ ret.err.kind # "Help"
       /\ \E o \in CallResults(cmd, ctx, WithoutHelpFalse(args), env) :
             /\ o.call[1].config = calls[1].config
             /\ o.call[1].params = calls[1].params
             /\ o.code = ret.code

\* the error is one that a command set returns for a name it does not have
UnknownCommand(err) == err.msg \in {"unknown command", "unknown command, did you mean"}

(***************************************************************************)
(* C28.  What a command set returns for a name it does not have is fixed   *)
(* by the name and the registered keys: every call with the same vector on *)
(* a set with the same keys returns the same kind of error (the error with *)
(* a suggestion, or the Usage) and suggests the same key, in whatever      *)
(* order the map gives its keys, also when several keys are at the least   *)
(* distance from the name.                                                 *)
(***************************************************************************)
C28_Deterministic ==
    (pc = "done" /\ UnknownCommand(ret.err)) =>
        \A o \in FunctionCall(cmd, ctx, args, env) :
            /\ o.err.kind = ret.err.kind
            /\ o.err.closest = ret.err.closest

(***************************************************************************)
(* The order of the steps of Call: calls with several defects at once, on  *)
(*   type config struct {                                                  *)
(*       Surname string `flag:"-s"`                                        *)
(*       N       int    `flag:"-n" default:"-"`                            *)
(*   }                                                                     *)
(*   func(config config, x int) error                                      *)
(*   func(config struct{ N int `flag:"-n" default:"-"` }, x int,           *)
(*        sub ...string) error                                             *)
(***************************************************************************)
OrderCommands ==
    {CommandFunc(Fn(<<"struct", "int">>,
                    << Field("string", <<s_>>, <<>>, <<>>),
                       Field("int", <<n_>>, <<>>, <<"-">>) >>, FALSE, <<"error">>),
                 <<>>, NilMap),
     CommandFunc(Fn(<<"struct", "int", "[]string">>,
                    << Field("int", <<n_>>, <<>>, <<"-">>) >>, TRUE, <<"error">>),
                 <<>>, NilMap)}

OrderTokens ==
    {Eq(s_, <<"b">>), Eq(n_, <<"x">>), Eq(n_, <<"1">>), <<"1">>, <<"z">>, <<"-","-">>,
     HelpFlag, bogus_}

InitOrder == InitWith(OrderCommands, {"nil"}, OrderTokens, {<<>>})

SpecOrder == InitOrder /\ [][Next]_vars

\* how many tokens before the first "--" are the token tok
Occ(tok) == Cardinality({i \in 1..(SepIndex(args) - 1) : args[i] = tok})

\* the defects of the pending call, each told from the vector and the Func alone
ParseDefect == Occ(bogus_) > 0 \/ (Len(cmd.Func.fields) = 1 /\ Occ(Eq(s_, <<"b">>)) > 0)

HelpDefect == Occ(HelpFlag) > 0

RequiredDefect == Len(cmd.Func.fields) = 2 /\ Occ(Eq(s_, <<"b">>)) = 0

OptionDefect ==
    \/ Occ(Eq(n_, <<"x">>)) > 0
    \/ Occ(Eq(n_, <<"1">>)) > 1
    \/ Occ(Eq(s_, <<"b">>)) > 1

PositionalDefect == PosValues = <<>> \/ PosValues[1] = <<"z">>

TooManyDefect == Len(PosValues) > 1

SeparatorDefect == IF cmd.Func.variadic THEN Trailing = <<>> ELSE Trailing # <<>>

\* the step the order of the claim makes the call stop at
FirstDefect ==
    IF ParseDefect THEN "parse"
    ELSE IF HelpDefect THEN "help"
    ELSE IF RequiredDefect THEN "required"
    ELSE IF OptionDefect THEN "decode"
    ELSE IF PositionalDefect THEN "positional"
    ELSE IF TooManyDefect THEN "too many"
    ELSE IF SeparatorDefect THEN "separator"
    ELSE "invoke"

\* the step the call stopped at, told from what it returned
StoppedAt ==
    IF Len(calls) > 0 THEN "invoke"
    ELSE IF ret.err.kind = "Help" /\ ret.code = 0 THEN "help"
    ELSE IF ret.err.kind = "error" /\ ret.code = 1 THEN "positional"
    ELSE IF ret.err.kind # "Usage" \/ ret.code # 1 THEN "none"
    ELSE IF ret.err.msg = "unrecognized option" THEN "parse"
    ELSE IF ret.err.msg = "missing required flag" THEN "required"
    ELSE IF ret.err.msg = "decoding" THEN "decode"
    ELSE IF ret.err.msg = "too many positional arguments" THEN "too many"
    ELSE IF ret.err.msg \in {"missing command after separator",
                             "unsupported command after separator"} THEN "separator"
    ELSE "none"

(***************************************************************************)
(* C30.  A call on a leaf command reports the first defect in the order:   *)
(* parse error, help request, missing required flag, option that does not  *)
(* decode, positional value that does not decode, too many positional      *)
(* values, the checks of the command after "--".  It invokes cmd.Func once *)
(* when the call has none of these defects, and not at all when it has     *)
(* one.                                                                    *)
(***************************************************************************)
C30_PipelineOrder ==
    pc # "ready" =>
        /\ pc = "done"
        /\ StoppedAt = FirstDefect
        /\ Len(calls) = IF FirstDefect = "invoke" THEN 1 ELSE 0

\* no -s, an -n that does not decode and a positional value that does not: the
\* missing required flag is what the call reports
C30_Witness ==
    /\ pc = "done"
    /\ args = <<Eq(n_, <<"x">>), <<"z">>>>
    /\ RequiredDefect /\ OptionDefect /\ PositionalDefect
    /\ UsageReturned("missing required flag")
    /\ ret.err.name = s_

====
